---- MODULE Spec2Model ----
(***************************************************************************)
(* Model of the pulse alert pipeline: the shared OUTBOX queue and the      *)
(* Broadcast actor of src/services/broadcast.rs with the event functions   *)
(* of src/services/broadcast/events.rs, the services that push to OUTBOX,  *)
(* and the Scheduler actor of src/services/scheduler.rs.                   *)
(*                                                                         *)
(* Time is in milliseconds: the monotonic clock (std::time::Instant) of    *)
(* the Broadcast actor and the wall clock (chrono::Local) of the Scheduler.*)
(***************************************************************************)
EXTENDS Integers, Sequences, FiniteSets, TLC

\* ---------------------------------------------------------------- bounds
MaxTime == 1000          \* the clock stops advancing here
MaxPushes == 3           \* total number of OUTBOX.push calls in a run
OutboxCapacity == 3      \* stands for ArrayQueue::new(100_000)
MaxProduced == 2         \* OUTBOX.push calls each service makes in a run
MaxLocalTime == 3000     \* the wall clock stops advancing here
MaxServices == 2         \* add_service calls before the Scheduler starts
MaxInsertErrors == 1     \* insert_message calls that fail in a run
MaxStopped == 1          \* services whose actor stops in a run
MaxMonitorTicks == 2     \* ticks of the SystemMonitor in a run
MaxRecordErrors == 1     \* record_disk_usage calls that fail in a run
MaxSeconds == 15000      \* the clock of the Ws actors stops advancing here
MaxItems == 3            \* stream items the Twitter actor takes in a run
MaxFetches == 3          \* FetchNews messages News handles in a run

\* ------------------------------------------------------- program constants
BROADCAST_TICK_INTERVAL == 500
HEARTBEAT_INTERVAL == 5000              \* ms
CLIENT_TIMEOUT == 10000                 \* ms
MAX_TWEETS_TO_SEND == 100

\* Option<T>: None, Some(x) and unwrap
None == <<>>

Some(x) == <<x>>

Unwrap(o) == o[1]

\* ----------------------------------------------------------------- inputs
TimeSteps == {250}                      \* granularity of the clock
SendDurations == {0, 250}               \* time one send_email call takes
Mounts == {"/", "/mnt/test"}
Usages == {0, 100}
Groups == {"a", "b"}
Intervals == {250}
LocalSteps == {250}                     \* granularity of the wall clock
StartTimes == {0, 250}                  \* wall clock when the Scheduler starts
TickMs == {500, 1000, 2000}             \* scheduler.tick_ms
Crons == {"* * * * * * *", "every second"}
Recipients == {"SystemMonitor", "News"}
NonUnicodePaths == {"/mnt/\\xFF"}        \* paths PathBuf::to_str rejects
Thresholds == {50}                      \* available_space_alert_above
Sizes == {<<4, 1>>, <<4, 2>>, <<0, 0>>} \* <<total, avail>> of a filesystem
StreamLists == {<<>>, <<"CheckDiskUsage">>,
                <<"CheckDiskUsage", "CheckDiskUsage">>}
Connections == {"c1", "c2"}             \* the WebSocket connections
SubscriberIds == {1, 2}                 \* the values rand::random() returns
HeartbeatSteps == {5000}                \* granularity of the clock of Ws

BroadcastEventType == {"HighDiskUsage", "Newscast", "TwitterAlert"}
AlertType == {"Digest", "Alarm"}
MediumLists == {<<>>, <<"Email">>, <<"Email", "Email">>}

\* enum BroadcastEvent (tweets and article sections are left out: no
\* function of the pipeline reads them except to render the body)
HighDiskUsage(m, c, x) ==
    [type |-> "HighDiskUsage", filesystem_mount |-> m,
     current_usage |-> c, max_usage |-> x]

TwitterAlert(g, c, x) ==
    [type |-> "TwitterAlert", group_name |-> g,
     current_count |-> c, max_count |-> x]

Newscast ==
    [type |-> "Newscast"]

BroadcastEvent ==
    {HighDiskUsage(m, c, x) : m \in Mounts, c \in Usages, x \in Usages}
    \cup {TwitterAlert(g, c, 0) : g \in Groups, c \in Usages}
    \cup {Newscast}

\* the events the producers push in this model
PushEvents ==
    {HighDiskUsage("/", 100, 0), HighDiskUsage("/mnt/test", 100, 0),
     TwitterAlert("a", 100, 0)}

\* struct AlertConfig
AlertConfig ==
    [alert_interval : {Some(i) : i \in Intervals} \cup {None},
     event : BroadcastEventType,
     mediums : MediumLists,
     alert_type : AlertType]

\* ------------------------------------------------------- events.rs
\* serde_json::to_string of a #[serde(rename_all = "kebab-case")] unit
\* variant: the kebab-case name inside JSON quotes
to_string(t) ==
    CASE t = "HighDiskUsage" -> "\"high-disk-usage\""
      [] t = "Newscast" -> "\"newscast\""
      [] t = "TwitterAlert" -> "\"twitter-alert\""

\* a match arm of event_type naming the wrong variant
event_type_wrong_arm(e) ==
    IF e.type = "TwitterAlert" THEN "HighDiskUsage" ELSE e.type

event_type(e) ==
    e.type

\* event_key without the mount: one key per event type
event_key_type_only(e) ==
    to_string(e.type)

event_key(e) ==
    CASE e.type = "HighDiskUsage" ->
            to_string(event_type(e)) \o e.filesystem_mount
      [] e.type = "Newscast" -> to_string(event_type(e))
      [] e.type = "TwitterAlert" -> to_string(event_type(e))

\* <<subject, body>>; the body is kept as the tuple of the values that are
\* formatted into it
subject_and_body(e) ==
    CASE e.type = "HighDiskUsage" ->
            <<"High Disk Usage",
              <<e.filesystem_mount, e.current_usage, e.max_usage>> >>
      [] e.type = "TwitterAlert" ->
            <<"Twitter Alert: " \o e.group_name,
              <<e.group_name, e.current_count, e.max_count>> >>
      [] e.type = "Newscast" -> <<"News", <<"Digest">> >>

\* ------------------------------------------------------------------ state
VARIABLES
    alerts,        \* Broadcast.alerts : HashMap<BroadcastEventType, AlertConfig>
    outbox,        \* OUTBOX : ArrayQueue<BroadcastEvent>, head first
    last_alerted,  \* LAST_ALERTED : HashMap<BroadcastEventKey, Instant>
    now,           \* the monotonic clock read by Instant::now()
    last_tick,     \* instant the interval timer last fired (or was armed)
    pc,            \* Broadcast actor: "idle", "draining" or "panicked"
    sent_emails,   \* every send_email call, in call order
    evals,         \* every event popped by the Broadcast actor, in pop order
    tick,          \* number of ticks started
    backlog,       \* events queued when the tick started and not yet popped
    pushes,        \* number of OUTBOX.push calls made
    pushed,        \* every OUTBOX.push call of a service, in call order
    scheduler,     \* struct Scheduler: config and services
    started_at,    \* Some(wall clock instant Scheduler::started ran) or None
    intervals,     \* the run_interval timers of the Scheduler, one per closure
    local_now,     \* the wall clock read by Local::now()
    messages,      \* the rows insert_message stored, in insert order
    mailboxes,     \* the ScheduleMessages each service received, in order
    stopped,       \* the services whose actor stopped: their mailbox is closed
    runs,          \* every run of a run_interval closure, in run order
    monitor,       \* struct SystemMonitor: config, streams and subscribers
    checking,      \* Some(<<stream, filesystem>>) the tick's closure is at
    system,        \* LocalSystem: what mount_at returns for each path
    disk_usage,    \* the rows insert_disk_usage stored, in insert order
    record_errors, \* number of record_disk_usage calls that failed
    samples,       \* the check_filesystem_usage calls of the latest tick
    monitor_ticks, \* number of ticks of the SystemMonitor started
    monitor_inbox, \* the Unsubscribe messages queued for the SystemMonitor
    ws,            \* the Ws actor of each connection
    updates,       \* the DiskUsage records each connection received
    twitter,       \* struct Twitter: config and tweet_buffer
    stream,        \* the items the Twitter actor took from its stream
    tweets,        \* the rows insert_tweet stored, in insert order
    fetches,       \* every FetchNews message News handled, in order
    main           \* fn main: where it is, what it read and what it started

\* the state of the Broadcast actor and OUTBOX
broadcastVars ==
    <<alerts, outbox, last_alerted, now, last_tick, pc, sent_emails, evals,
      tick, backlog, pushes>>

\* the history of the services that push to OUTBOX
producerVars ==
    <<pushed>>

\* the state of the Scheduler actor, the database and the services' mailboxes
schedulerVars ==
    <<scheduler, started_at, intervals, local_now, messages, mailboxes,
      stopped, runs>>

\* the state of the SystemMonitor actor, the database and the Ws actors
monitorVars ==
    <<monitor, checking, system, disk_usage, record_errors, samples,
      monitor_ticks, monitor_inbox, ws, updates>>

\* the state of the Twitter actor, of the News actor and of fn main
serviceVars ==
    <<twitter, stream, tweets, fetches, main>>

vars ==
    <<broadcastVars, producerVars, schedulerVars, monitorVars, serviceVars>>

\* HashMap::get
Get(map, k) ==
    IF k \in DOMAIN map THEN Some(map[k]) ELSE None

\* HashMap::insert
Insert(map, k, v) ==
    [x \in DOMAIN map \cup {k} |-> IF x = k THEN v ELSE map[x]]

\* the maps Broadcast::new builds, each AlertConfig keyed by its event
\* field; here the configurations with one rule, for HighDiskUsage, so that
\* the other event types have no rule
AlertMaps ==
    {[t \in {r.event} |-> r] :
        r \in {c \in AlertConfig : c.event = "HighDiskUsage"}}

\* the Broadcast actor just started, with the rules of alerts_map, and an
\* empty OUTBOX
BroadcastStarted(alerts_map) ==
    /\ alerts = alerts_map
    /\ outbox = <<>>
    /\ last_alerted = <<>>
    /\ now = 0
    /\ last_tick = 0
    /\ pc = "idle"
    /\ sent_emails = <<>>
    /\ evals = <<>>
    /\ tick = 0
    /\ backlog = 0
    /\ pushes = 0

\* no service has pushed yet
NoProducers ==
    pushed = <<>>

\* Scheduler::new() with the configuration config, not yet started, at the
\* wall clock instant t; an empty database and empty mailboxes
SchedulerNew(config, t) ==
    /\ scheduler = [config |-> config, services |-> <<>>]
    /\ started_at = None
    /\ intervals = <<>>
    /\ local_now = t
    /\ messages = <<>>
    /\ mailboxes = [service \in Recipients |-> <<>>]
    /\ stopped = {}
    /\ runs = <<>>

\* Config::default(): a scheduler without schedules
NoScheduler ==
    SchedulerNew([schedules |-> <<>>, tick_ms |-> 5000], 0)

\* SystemMonitor::new() with the configuration config and the streams,
\* not yet ticking, on a system whose mounts are in the state sys; an
\* empty database and no connection
MonitorNew(config, streams, sys) ==
    /\ monitor = [config |-> config, streams |-> streams,
                  subscribers |-> <<>>]
    /\ checking = None
    /\ system = sys
    /\ disk_usage = <<>>
    /\ record_errors = 0
    /\ samples = <<>>
    /\ monitor_ticks = 0
    /\ monitor_inbox = <<>>
    /\ ws = [c \in Connections |->
                [state |-> "new", subscriber_id |-> None,
                 last_heartbeat |-> 0, heartbeat_at |-> 0,
                 stopped_by |-> "none"]]
    /\ updates = [c \in Connections |-> <<>>]

\* Config::default(): no system_monitor section, no SystemMonitor
NoMonitor ==
    MonitorNew([filesystems |-> <<>>], <<>>, <<>>)

\* Twitter::new() with the configuration config, after the stream items
\* earlier were taken: rows are the rows stored and buffer the tweet_buffer
\* they left
TwitterNew(config, earlier, rows, buffer) ==
    /\ twitter = [config |-> config, tweet_buffer |-> buffer]
    /\ stream = [earlier |-> earlier, taken |-> <<>>]
    /\ tweets = rows

\* Config::default(): no twitter section, Twitter::new() returns None
NoTwitter ==
    TwitterNew([terms |-> <<>>], <<>>, <<>>, <<>>)

\* News has handled no message
NoNews ==
    fetches = <<>>

\* fn main has started the components and serves
NoMain ==
    main = [pc |-> "serving", env |-> None, started |-> <<>>,
            exit |-> None]

NoServices ==
    /\ NoTwitter
    /\ NoNews
    /\ NoMain

Init ==
    /\ \E alerts_map \in AlertMaps : BroadcastStarted(alerts_map)
    /\ NoProducers
    /\ NoScheduler
    /\ NoMonitor
    /\ NoServices

\* ------------------------------------------------------------ producers
\* OUTBOX.push(event): ArrayQueue::push appends unless the queue is full,
\* and then returns PushError without blocking
\* ArrayQueue::push with room for one event more than the capacity
push_beyond_capacity(queue, event) ==
    IF Len(queue) <= OutboxCapacity
    THEN [queue |-> Append(queue, event), result |-> "Ok"]
    ELSE [queue |-> queue, result |-> "Full"]

\* ArrayQueue::push putting the event at the head of the queue
push_front(queue, event) ==
    IF Len(queue) < OutboxCapacity
    THEN [queue |-> <<event>> \o queue, result |-> "Ok"]
    ELSE [queue |-> queue, result |-> "Full"]

\* ArrayQueue::push overwriting the newest queued event when the queue is
\* full, and reporting success
push_overwrites(queue, event) ==
    IF Len(queue) < OutboxCapacity
    THEN [queue |-> Append(queue, event), result |-> "Ok"]
    ELSE [queue |-> Append(SubSeq(queue, 1, Len(queue) - 1), event),
          result |-> "Ok"]

\* ArrayQueue::push: the queue after the call and the call's result
ArrayQueue_push(queue, event) ==
    IF Len(queue) < OutboxCapacity
    THEN [queue |-> Append(queue, event), result |-> "Ok"]
    ELSE [queue |-> queue, result |-> "Full"]

Push(event) ==
    /\ pushes < MaxPushes
    /\ pushes' = pushes + 1
    /\ outbox' = ArrayQueue_push(outbox, event).queue
    /\ UNCHANGED <<alerts, last_alerted, now, last_tick, pc, sent_emails,
                   evals, tick, backlog>>
    /\ UNCHANGED <<producerVars, schedulerVars, monitorVars, serviceVars>>

\* --------------------------------------------------------------- the clock
Advance ==
    \E d \in TimeSteps :
        /\ now + d <= MaxTime
        /\ now' = now + d
        /\ UNCHANGED <<alerts, outbox, last_alerted, last_tick, pc,
                       sent_emails, evals, tick, backlog, pushes>>
        /\ UNCHANGED <<producerVars, schedulerVars, monitorVars, serviceVars>>

\* ------------------------------------------------------- Broadcast actor
\* the window test with >= in place of >
ShouldAlert_at_interval(alert_config, last, t) ==
    \/ alert_config.alert_interval = None
    \/ IF last # None
       THEN t - Unwrap(last) >= Unwrap(alert_config.alert_interval)
       ELSE TRUE

\* a missing alert_interval read as "alert once": only the first event of
\* a key passes
ShouldAlert_once(alert_config, last, t) ==
    IF last # None
    THEN /\ alert_config.alert_interval # None
         /\ t - Unwrap(last) > Unwrap(alert_config.alert_interval)
    ELSE TRUE

\* the guard of the match arm: alert unless one was sent inside the window
ShouldAlert(alert_config, last, t) ==
    \/ alert_config.alert_interval = None
    \/ IF last # None
       THEN t - Unwrap(last) > Unwrap(alert_config.alert_interval)
       ELSE TRUE

\* the prefix chosen without looking at LAST_ALERTED
Prefix_never_retriggered(alert_config, last) ==
    "[PULSE]"

\* the prefix chosen without looking at the alert type
Prefix_any_type(alert_config, last) ==
    IF last = None THEN "[PULSE]" ELSE "[PULSE] Retriggered:"

Prefix(alert_config, last) ==
    IF last = None \/ alert_config.alert_type = "Digest"
    THEN "[PULSE]" ELSE "[PULSE] Retriggered:"

\* the results the send_email calls of one delivery loop can have: one
\* call per medium, each taking some time, up to the first Err (which
\* .unwrap() turns into a panic)
DeliveryOutcomes(n) ==
    {r \in UNION {[1..m -> [dur : SendDurations, ok : BOOLEAN]] : m \in 0..n} :
        /\ \A i \in 1..(Len(r) - 1) : r[i].ok
        /\ Len(r) < n => (Len(r) > 0 /\ ~r[Len(r)].ok)}

RECURSIVE Elapsed(_, _)
Elapsed(r, i) ==
    IF i = 0 THEN 0 ELSE r[i].dur + Elapsed(r, i - 1)

Delivered(r, n) ==
    Len(r) = n /\ \A i \in 1..n : r[i].ok

\* the instant read before the delivery loop instead of after it
AlertedAt_before_delivery(t, r) ==
    t

\* the Instant::now() stored in LAST_ALERTED: read after the delivery loop
\* that started at t and had the results r
AlertedAt(t, r) ==
    t + Elapsed(r, Len(r))

\* ctx.run_interval(BROADCAST_TICK_INTERVAL, ..): the timer fires
Tick ==
    /\ pc = "idle"
    /\ now - last_tick >= BROADCAST_TICK_INTERVAL
    /\ pc' = "draining"
    /\ last_tick' = now
    /\ tick' = tick + 1
    /\ backlog' = Len(outbox)
    /\ UNCHANGED <<alerts, outbox, last_alerted, now, sent_emails, evals,
                   pushes>>
    /\ UNCHANGED <<producerVars, schedulerVars, monitorVars, serviceVars>>

\* the rule of the sent event taken out of the map
alerts_insert_removes(alerts_map, message_type, alert_config) ==
    [t \in DOMAIN alerts_map \ {message_type} |-> alerts_map[t]]

\* this.alerts.insert(message_type, alert_config.clone()) after the
\* delivery loop, alert_config being the entry of the cloned map
alerts_insert(alerts_map, message_type, alert_config) ==
    Insert(alerts_map, message_type, alert_config)

\* the instant of the event written for its key although it is not sent
NotAlerting_refreshes(last_alerted_map, message_id, t) ==
    Insert(last_alerted_map, message_id, t)

\* LAST_ALERTED after the `_` arm, which only logs
NotAlerting(last_alerted_map, message_id, t) ==
    last_alerted_map

\* one iteration of `while let Some(message) = get_next_event()`
ProcessEvent ==
    /\ pc = "draining"
    /\ outbox # <<>>
    /\ LET message == Head(outbox)
           alerts_map == alerts
           message_id == event_key(message)
           message_type == event_type(message)
           last == Get(last_alerted, message_id)
           rule == Get(alerts_map, message_type)
           eval == [event |-> message, key |-> message_id,
                    rule |-> rule, tick |-> tick, at |-> now,
                    last |-> last]
       IN  /\ outbox' = Tail(outbox)
           /\ backlog' = IF backlog > 0 THEN backlog - 1 ELSE 0
           /\ IF rule # None /\ ShouldAlert(Unwrap(rule), last, now)
              THEN \E r \in DeliveryOutcomes(Len(Unwrap(rule).mediums)) :
                     LET alert_config == Unwrap(rule)
                         sb == subject_and_body(message)
                         n == Len(alert_config.mediums)
                         done == now + Elapsed(r, Len(r))
                     IN  /\ done <= MaxTime
                         /\ now' = done
                         /\ sent_emails' = sent_emails \o
                              [i \in 1..Len(r) |->
                                 [subject |-> Prefix(alert_config, last)
                                              \o " " \o sb[1],
                                  body |-> sb[2],
                                  at |-> now + Elapsed(r, i),
                                  ok |-> r[i].ok,
                                  eval |-> Len(evals) + 1]]
                         /\ IF Delivered(r, n)
                            THEN /\ alerts' = alerts_insert(alerts, message_type,
                                                            alert_config)
                                 /\ last_alerted' =
                                      Insert(last_alerted, message_id,
                                             AlertedAt(now, r))
                                 /\ pc' = pc
                                 /\ evals' = Append(evals,
                                      eval @@ [send_now |-> TRUE,
                                               recorded |-> Some(AlertedAt(now, r))])
                            ELSE /\ pc' = "panicked"
                                 /\ UNCHANGED <<alerts, last_alerted>>
                                 /\ evals' = Append(evals,
                                      eval @@ [send_now |-> TRUE,
                                               recorded |-> None])
              ELSE /\ evals' = Append(evals,
                                      eval @@ [send_now |-> FALSE,
                                               recorded |-> None])
                   /\ last_alerted' =
                        NotAlerting(last_alerted, message_id, now)
                   /\ UNCHANGED <<alerts, now, pc, sent_emails>>
    /\ UNCHANGED <<last_tick, tick, pushes>>
    /\ UNCHANGED <<producerVars, schedulerVars, monitorVars, serviceVars>>

\* get_next_event() returns None: the closure returns until the next tick
EndTick ==
    /\ pc = "draining"
    /\ outbox = <<>>
    /\ pc' = "idle"
    /\ UNCHANGED <<alerts, outbox, last_alerted, now, last_tick, sent_emails,
                   evals, tick, backlog, pushes>>
    /\ UNCHANGED <<producerVars, schedulerVars, monitorVars, serviceVars>>

Next ==
    \/ \E event \in PushEvents : Push(event)
    \/ Advance
    \/ Tick
    \/ ProcessEvent
    \/ EndTick

Spec ==
    Init /\ [][Next]_vars

TypeOK ==
    /\ pc \in {"idle", "draining", "panicked"}
    /\ Len(outbox) <= OutboxCapacity
    /\ now \in 0..MaxTime

\* ------------------------------------------- a rule for TwitterAlert
\* the maps Broadcast::new builds from one rule, for TwitterAlert
TwitterAlertMaps ==
    {[t \in {r.event} |-> r] :
        r \in {c \in AlertConfig : c.event = "TwitterAlert"}}

\* the events pushed under that rule: one alert per group
TwitterPushEvents ==
    {TwitterAlert("a", 100, 0), TwitterAlert("b", 100, 0)}

InitTwitter ==
    /\ \E alerts_map \in TwitterAlertMaps : BroadcastStarted(alerts_map)
    /\ NoProducers
    /\ NoScheduler
    /\ NoMonitor
    /\ NoServices

NextTwitter ==
    \/ \E event \in TwitterPushEvents : Push(event)
    \/ Advance
    \/ Tick
    \/ ProcessEvent
    \/ EndTick

SpecTwitter ==
    InitTwitter /\ [][NextTwitter]_vars

\* ------------------------------------------------- the pushing services
\* SystemMonitor, Twitter and News run as actors of their own and push to
\* OUTBOX while the Broadcast actor pops; ArrayQueue::push and
\* ArrayQueue::pop are linearizable, so each is one step
Producers == {"SystemMonitor", "Twitter", "News"}

\* the number of pushes a service has made
Produced(service) ==
    Cardinality({i \in 1..Len(pushed) : pushed[i].service = service})

\* the event of the n-th push of a service; the usage and the count stand
\* for the measured values and tell the pushes of one service apart
EventOf(service, n) ==
    CASE service = "SystemMonitor" -> HighDiskUsage("/", n, 0)
      [] service = "Twitter" -> TwitterAlert("a", n, 0)
      [] service = "News" -> Newscast

\* the service that builds events of this type
ProducerOf(event) ==
    CASE event.type = "HighDiskUsage" -> "SystemMonitor"
      [] event.type = "TwitterAlert" -> "Twitter"
      [] event.type = "Newscast" -> "News"

\* OUTBOX.push(event) with the call recorded
RecordedPush(service, event) ==
    LET r == ArrayQueue_push(outbox, event)
    IN  /\ outbox' = r.queue
        /\ pushed' = Append(pushed, [service |-> service, event |-> event,
                                     result |-> r.result])
        /\ UNCHANGED <<alerts, last_alerted, now, last_tick, pc, sent_emails,
                       evals, tick, backlog, pushes>>
        /\ UNCHANGED <<schedulerVars, monitorVars, serviceVars>>

\* LiveSystemMonitorPorts::send_alert and LiveTwitterPorts::send_alert
send_alert(service) ==
    /\ Produced(service) < MaxProduced
    /\ RecordedPush(service, EventOf(service, Produced(service) + 1))

\* News::build_newscast once the articles are fetched (a failed fetch
\* returns before the push and changes nothing); two Newscast events
\* cannot be told apart here, so News pushes one
build_newscast ==
    /\ Produced("News") < 1
    /\ RecordedPush("News", EventOf("News", Produced("News") + 1))

\* the rules the Broadcast actor runs with while the services push: none,
\* so that every popped event takes the `_` arm and the drain never stops
OutboxAlertMaps ==
    {<<>>}

InitOutbox ==
    /\ \E alerts_map \in OutboxAlertMaps : BroadcastStarted(alerts_map)
    /\ NoProducers
    /\ NoScheduler
    /\ NoMonitor
    /\ NoServices

NextOutbox ==
    \/ \E service \in {"SystemMonitor", "Twitter"} : send_alert(service)
    \/ build_newscast
    \/ Advance
    \/ Tick
    \/ ProcessEvent
    \/ EndTick

SpecOutbox ==
    InitOutbox /\ [][NextOutbox]_vars

\* ------------------------------------------------------- Scheduler actor
\* enum ScheduleMessage
ScheduleMessage == {"CheckDiskUsage", "FetchNews"}

\* serde_json::to_string of a ScheduleMessage (kebab-case unit variants)
message_to_string(m) ==
    CASE m = "CheckDiskUsage" -> "\"check-disk-usage\""
      [] m = "FetchNews" -> "\"fetch-news\""

\* struct ScheduleConfig
ScheduleConfig ==
    [cron : {Some(c) : c \in Crons} \cup {None}, message : ScheduleMessage]

\* the scheduler.schedules lists of the model: one task, or two tasks with
\* different messages
ScheduleLists ==
    {<<t>> : t \in {c \in ScheduleConfig : c.message = "CheckDiskUsage"}}
    \cup {<<t, u>> : t \in {c \in ScheduleConfig : c.message = "CheckDiskUsage"},
                     u \in {c \in ScheduleConfig : c.message = "FetchNews"}}

\* struct SchedulerConfig
SchedulerConfig ==
    [schedules : ScheduleLists, tick_ms : TickMs]

\* CronSchedule::from_str(..).ok(): the schedule of a cron expression, here
\* the distance in ms between its occurrences (which fall on multiples of
\* it), or None when the expression does not parse
from_str(c) ==
    IF c = "* * * * * * *" THEN Some([every |-> 1000]) ELSE None

\* schedule.cron.clone().and_then(|c| CronSchedule::from_str(&c).ok())
CronOf(schedule) ==
    IF schedule.cron = None THEN None ELSE from_str(Unwrap(schedule.cron))

\* cron_schedule.upcoming(Local).next().unwrap(): the first occurrence
\* after the instant t
upcoming(cron_schedule, t) ==
    ((t \div cron_schedule.every) + 1) * cron_schedule.every

\* the test of the closure: without a cron schedule it fires at every tick,
\* with one when now is within one tick before the next occurrence
ShouldFire(cron_schedule, tick_ms, t) ==
    IF cron_schedule # None
    THEN LET next_date == upcoming(Unwrap(cron_schedule), t)
             one_tick_before == next_date - tick_ms
         IN  one_tick_before <= t /\ t <= next_date
    ELSE TRUE

\* do_send reached only when the insert succeeded
Dispatched_if_inserted(inserted) ==
    inserted

\* whether the closure reaches service.do_send after the insert: the
\* insert's error is printed by unwrap_or_else and the closure goes on
Dispatched(inserted) ==
    TRUE

\* the closures Scheduler::started registers: one per schedule and service
Closures ==
    (1..Len(scheduler.config.schedules)) \X (1..Len(scheduler.services))

\* the insert_message calls that failed so far
InsertErrors ==
    Cardinality({i \in 1..Len(runs) : runs[i].fired /\ ~runs[i].inserted})

InitScheduler ==
    /\ BroadcastStarted(<<>>)
    /\ NoProducers
    /\ \E config \in SchedulerConfig, t \in StartTimes : SchedulerNew(config, t)
    /\ NoMonitor
    /\ NoServices

\* add_service on a Scheduler that may have started already
add_service_after_start(service) ==
    /\ Len(scheduler.services) < MaxServices
    /\ \A i \in 1..Len(scheduler.services) : scheduler.services[i] # service
    /\ scheduler' = [scheduler EXCEPT !.services = Append(@, service)]
    /\ UNCHANGED <<started_at, intervals, local_now, messages, mailboxes,
                   stopped, runs>>
    /\ UNCHANGED <<broadcastVars, producerVars, monitorVars, serviceVars>>

\* Scheduler::add_service: it takes the Scheduler by value, so it is called
\* before the Scheduler is moved into its actor by start()
add_service(service) ==
    /\ started_at = None
    /\ Len(scheduler.services) < MaxServices
    /\ \A i \in 1..Len(scheduler.services) : scheduler.services[i] # service
    /\ scheduler' = [scheduler EXCEPT !.services = Append(@, service)]
    /\ UNCHANGED <<started_at, intervals, local_now, messages, mailboxes,
                   stopped, runs>>
    /\ UNCHANGED <<broadcastVars, producerVars, monitorVars, serviceVars>>

\* Scheduler::started: one run_interval(std_tick, closure) per schedule
\* and service, first due one tick after the start
started ==
    /\ started_at = None
    /\ started_at' = Some(local_now)
    /\ intervals' =
         [c \in Closures |->
            [at |-> local_now + scheduler.config.tick_ms,
             cron_schedule |-> CronOf(scheduler.config.schedules[c[1]])]]
    /\ UNCHANGED <<scheduler, local_now, messages, mailboxes, stopped, runs>>
    /\ UNCHANGED <<broadcastVars, producerVars, monitorVars, serviceVars>>

\* the order in which started registers the closures: the schedules in
\* the outer loop, the services in the inner one
RegisteredBefore(b, c) ==
    b[1] < c[1] \/ (b[1] = c[1] /\ b[2] < c[2])

\* the closure ends at the first rejected message, and the actor with it
Survives_unwrap(result) ==
    result = "Ok"

\* whether the closure returns normally after service.do_send: its error
\* is printed by unwrap_or_else and the closure returns
Survives(result) ==
    TRUE

\* Recipient::do_send: the message is queued unless the actor of the
\* service has stopped, and then SendError::Closed is returned
do_send(service) ==
    IF service \in stopped THEN "Closed" ELSE "Ok"

\* one run of the closure of schedule c[1] and service c[2], when its
\* interval timer is due; the actor's context polls the timers that are
\* due together in the order they were registered
run_interval(c) ==
    /\ started_at # None
    /\ c \in DOMAIN intervals
    /\ intervals[c].at = local_now
    /\ \A b \in DOMAIN intervals :
         RegisteredBefore(b, c) => intervals[b].at > local_now
    /\ LET tick_ms == scheduler.config.tick_ms
           schedule == scheduler.config.schedules[c[1]]
           service == scheduler.services[c[2]]
           run == [schedule |-> c[1], service |-> service, at |-> local_now]
           rearmed == [intervals EXCEPT ![c].at = @ + tick_ms]
       IN  IF ShouldFire(intervals[c].cron_schedule, tick_ms, local_now)
           THEN \E inserted \in BOOLEAN :
                  LET dispatch == IF Dispatched(inserted)
                                  THEN do_send(service) ELSE "none"
                  IN  /\ ~inserted => InsertErrors < MaxInsertErrors
                      /\ messages' =
                           IF inserted
                           THEN Append(messages,
                                       message_to_string(schedule.message))
                           ELSE messages
                      /\ mailboxes' =
                           IF dispatch = "Ok"
                           THEN [mailboxes EXCEPT
                                   ![service] = Append(@, schedule.message)]
                           ELSE mailboxes
                      /\ intervals' =
                           IF Survives(dispatch) THEN rearmed ELSE <<>>
                      /\ runs' = Append(runs,
                           run @@ [fired |-> TRUE, inserted |-> inserted,
                                   dispatch |-> dispatch])
           ELSE /\ intervals' = rearmed
                /\ runs' = Append(runs,
                       run @@ [fired |-> FALSE, inserted |-> FALSE,
                               dispatch |-> "none"])
                /\ UNCHANGED <<messages, mailboxes>>
    /\ UNCHANGED <<scheduler, started_at, local_now, stopped>>
    /\ UNCHANGED <<broadcastVars, producerVars, monitorVars, serviceVars>>

\* the actor of a registered service stops; its mailbox rejects every
\* message sent from then on. A stop is taken once the closures due now
\* have run: a closure reads only the mailbox of its own service, so a
\* stop between two closures of an instant is a stop before both
stop(service) ==
    /\ started_at # None
    /\ \A c \in DOMAIN intervals : intervals[c].at > local_now
    /\ service \in {scheduler.services[i] : i \in 1..Len(scheduler.services)}
    /\ service \notin stopped
    /\ Cardinality(stopped) < MaxStopped
    /\ stopped' = stopped \cup {service}
    /\ UNCHANGED <<scheduler, started_at, intervals, local_now, messages,
                   mailboxes, runs>>
    /\ UNCHANGED <<broadcastVars, producerVars, monitorVars, serviceVars>>

\* the wall clock advances once every closure due now has run
AdvanceLocal ==
    \E d \in LocalSteps :
        /\ started_at # None
        /\ \A c \in DOMAIN intervals : intervals[c].at > local_now
        /\ local_now + d <= MaxLocalTime
        /\ local_now' = local_now + d
        /\ UNCHANGED <<scheduler, started_at, intervals, messages, mailboxes,
                       stopped, runs>>
        /\ UNCHANGED <<broadcastVars, producerVars, monitorVars, serviceVars>>

NextScheduler ==
    \/ \E service \in Recipients : add_service(service)
    \/ started
    \/ \E c \in Closures : run_interval(c)
    \/ \E service \in Recipients : stop(service)
    \/ AdvanceLocal

SpecScheduler ==
    InitScheduler /\ [][NextScheduler]_vars

\* --------------------------------------------------- SystemMonitor actor
\* f64: NaN, or the number v (the sizes of the model give percentages
\* that f64 holds exactly)
NaN ==
    [nan |-> TRUE, v |-> 0]

F64(x) ==
    [nan |-> FALSE, v |-> x]

\* a > b on f64: false when a side is NaN
f64_gt(a, b) ==
    ~a.nan /\ ~b.nan /\ a.v > b.v

\* Result<T>
Ok(x) ==
    [ok |-> TRUE, value |-> x]

Err(e) ==
    [ok |-> FALSE, value |-> e]

\* struct FilesystemConfig
FilesystemConfig ==
    [mount : Mounts \cup NonUnicodePaths,
     available_space_alert_above : Thresholds]

\* the system_monitor.filesystems lists of the model: one mount, two
\* mounts, and a path that is not unicode before a mount
FilesystemLists ==
    {<<f>> : f \in {c \in FilesystemConfig : c.mount = "/"}}
    \cup {<<f, g>> : f \in {c \in FilesystemConfig : c.mount = "/"},
                     g \in {c \in FilesystemConfig : c.mount = "/mnt/test"}}
    \cup {<<f, g>> : f \in {c \in FilesystemConfig :
                                c.mount \in NonUnicodePaths},
                     g \in {c \in FilesystemConfig : c.mount = "/"}}

\* struct SystemMonitorConfig
SystemMonitorConfig ==
    [filesystems : FilesystemLists]

\* PathBuf::to_str
to_str(path) ==
    IF path \in NonUnicodePaths THEN None ELSE Some(path)

\* the paths of a configuration that reach LocalSystem::mount_at
ConfiguredPaths(config) ==
    {config.filesystems[j].mount : j \in 1..Len(config.filesystems)}
        \ NonUnicodePaths

\* what LocalSystem::mount_at(path) can return: the systemstat Filesystem
\* mounted on the path, or an error
MountResults(path) ==
    {Ok([fs_mounted_on |-> path, total |-> z[1], avail |-> z[2]]) :
        z \in Sizes}
    \cup {Err("NotFound")}

\* the states the mounts of a configuration can be in; the mounts stay
\* as they are during a run
Systems(config) ==
    {sys \in [ConfiguredPaths(config) ->
                 UNION {MountResults(p) : p \in Mounts}] :
        \A p \in ConfiguredPaths(config) : sys[p] \in MountResults(p)}

\* SystemMonitor::get_mount
get_mount(filesystem_config) ==
    LET path == to_str(filesystem_config.mount)
    IN  IF path = None
        THEN Err("InvalidUnicodePath")
        ELSE system[Unwrap(path)]

\* ((total - avail) as f64 / total as f64) * 100_f64
percent_disk_used(filesystem) ==
    IF filesystem.total = 0
    THEN NaN
    ELSE F64(((filesystem.total - filesystem.avail) * 100)
                 \div filesystem.total)

\* HashMap::remove
Remove(map, k) ==
    [x \in DOMAIN map \ {k} |-> map[x]]

\* the orders in which HashMap::values can yield the entries of the keys S
Orders(S) ==
    {o \in [1..Cardinality(S) -> S] : \A x \in S : \E i \in DOMAIN o : o[i] = x}

\* Recipient::do_send to the Ws actor of a connection: the record is queued
\* unless the actor has stopped, and then SendError::Closed is returned
subscriber_do_send(c) ==
    IF ws[c].state = "open" THEN "Ok" ELSE "Closed"

\* subscribers.values().map(do_send).collect::<Result<Vec<_>>>() with the
\* values in the order `order`: the calls made (collect stops at the first
\* Err), the connections that received the record, and the result
FanOut(order) ==
    LET rejected == {i \in DOMAIN order :
                        subscriber_do_send(monitor.subscribers[order[i]])
                            # "Ok"}
        reached == IF rejected = {}
                   THEN Len(order)
                   ELSE CHOOSE i \in rejected : \A r \in rejected : i <= r
    IN  [tried |-> SubSeq(order, 1, reached),
         delivered |-> {monitor.subscribers[order[i]] :
                            i \in (1..reached) \ rejected},
         result |-> IF rejected = {} THEN "Ok" ELSE "Err"]

\* the ids next_subscriber_id may return whatever the subscribers are
next_subscriber_id_any ==
    SubscriberIds

\* SystemMonitor::next_subscriber_id: a random id, drawn again while it is
\* the key of a subscriber
next_subscriber_id ==
    SubscriberIds \ DOMAIN monitor.subscribers

\* the configurations the SystemMonitor runs with: every list of
\* filesystems with one stream, and one filesystem with every list of
\* streams
MonitorSetups ==
    {x \in SystemMonitorConfig \X StreamLists :
        Len(x[1].filesystems) = 1 \/ Len(x[2]) = 1}

InitMonitor ==
    /\ BroadcastStarted(<<>>)
    /\ NoProducers
    /\ NoScheduler
    /\ \E x \in MonitorSetups :
         \E sys \in Systems(x[1]) : MonitorNew(x[1], x[2], sys)
    /\ NoServices

\* one run of the closure SystemMonitor::started passes to run_interval
\* begins: the closure is at the first filesystem of its first stream, if
\* it has a stream
SystemMonitor_started ==
    /\ checking = None
    /\ monitor_ticks < MaxMonitorTicks
    /\ monitor_ticks' = monitor_ticks + 1
    /\ samples' = <<>>
    /\ checking' = IF monitor.streams = <<>> THEN None ELSE Some(<<1, 1>>)
    /\ UNCHANGED <<monitor, system, disk_usage, record_errors,
                   monitor_inbox, ws, updates>>
    /\ UNCHANGED <<broadcastVars, producerVars, schedulerVars, serviceVars>>

\* the fan-out reached whenever the mount was found
FannedOut_without_record(mounted, inserted) ==
    mounted

\* whether the and_then chain reaches the fan-out: only with the mount
\* found and the Ok of record_disk_usage
FannedOut(mounted, inserted) ==
    mounted /\ inserted

\* SystemMonitor::check_filesystem_usage for the filesystem the closure is
\* at, then the step of check_all_filesystems_usage (collect stops at the
\* first Err) and of the loop over the streams (the Err is logged)
check_filesystem_usage ==
    /\ checking # None
    /\ \E inserted \in BOOLEAN, order \in Orders(DOMAIN monitor.subscribers) :
         LET i == Unwrap(checking)[1]
             j == Unwrap(checking)[2]
             filesystem_config == monitor.config.filesystems[j]
             threshold == F64(filesystem_config.available_space_alert_above)
             mount == get_mount(filesystem_config)
             filesystem == mount.value
             percent == percent_disk_used(filesystem)
             row == [mount |-> filesystem.fs_mounted_on,
                     percent_disk_used |-> percent]
             recorded == mount.ok /\ inserted
             reached == FannedOut(mount.ok, inserted)
             fan == IF reached
                    THEN FanOut(order)
                    ELSE [tried |-> <<>>, delivered |-> {}, result |-> "none"]
             alerting == /\ reached
                         /\ fan.result = "Ok"
                         /\ f64_gt(percent, threshold)
             push == ArrayQueue_push(outbox,
                         HighDiskUsage(filesystem.fs_mounted_on, percent,
                                       threshold))
             result == IF /\ recorded
                          /\ fan.result = "Ok"
                          /\ (alerting => push.result = "Ok")
                       THEN "Ok" ELSE "Err"
         IN  /\ ~inserted => (mount.ok /\ record_errors < MaxRecordErrors)
             /\ ~reached => order = CHOOSE o \in
                                 Orders(DOMAIN monitor.subscribers) : TRUE
             /\ record_errors' =
                  IF mount.ok /\ ~inserted
                  THEN record_errors + 1 ELSE record_errors
             /\ disk_usage' =
                  IF recorded THEN Append(disk_usage, row) ELSE disk_usage
             /\ updates' =
                  [c \in Connections |->
                      IF c \in fan.delivered
                      THEN Append(updates[c], row) ELSE updates[c]]
             /\ outbox' = IF alerting THEN push.queue ELSE outbox
             /\ pushed' =
                  IF alerting
                  THEN Append(pushed,
                           [service |-> "SystemMonitor",
                            event |-> HighDiskUsage(filesystem.fs_mounted_on,
                                                    percent, threshold),
                            result |-> push.result])
                  ELSE pushed
             /\ samples' = Append(samples,
                  [stream |-> i, filesystem |-> j,
                   mounted |-> mount.ok,
                   percent |-> IF mount.ok THEN Some(percent) ELSE None,
                   recorded |-> recorded,
                   tried |-> fan.tried,
                   delivered |-> fan.delivered,
                   alert |-> IF alerting THEN push.result ELSE "none",
                   result |-> result])
             /\ checking' =
                  IF result = "Ok" /\ j < Len(monitor.config.filesystems)
                  THEN Some(<<i, j + 1>>)
                  ELSE IF i < Len(monitor.streams)
                       THEN Some(<<i + 1, 1>>)
                       ELSE None
    /\ UNCHANGED <<monitor, system, monitor_ticks, monitor_inbox, ws>>
    /\ UNCHANGED <<alerts, last_alerted, now, last_tick, pc, sent_emails,
                   evals, tick, backlog, pushes>>
    /\ UNCHANGED <<schedulerVars, serviceVars>>

\* Handler<Unsubscribe>: the SystemMonitor takes the message once the
\* closure of its tick has returned
handle_Unsubscribe ==
    /\ checking = None
    /\ monitor_inbox # <<>>
    /\ monitor' = [monitor EXCEPT
                     !.subscribers = Remove(@, Head(monitor_inbox))]
    /\ monitor_inbox' = Tail(monitor_inbox)
    /\ UNCHANGED <<checking, system, disk_usage, record_errors, samples,
                   monitor_ticks, ws, updates>>
    /\ UNCHANGED <<broadcastVars, producerVars, schedulerVars, serviceVars>>

\* ------------------------------------------------------------- Ws actor
\* Ws::new and Ws::started for a new connection: the actor waits for the
\* SystemMonitor to handle its Subscribe (Handler<Subscribe>), keeps the
\* id and starts the heartbeat
Ws_started(c) ==
    /\ ws[c].state = "new"
    /\ monitor.config.filesystems # <<>>
    /\ checking = None
    /\ \E id \in next_subscriber_id :
         /\ monitor' = [monitor EXCEPT !.subscribers = Insert(@, id, c)]
         /\ ws' = [ws EXCEPT ![c] =
                     [state |-> "open", subscriber_id |-> Some(id),
                      last_heartbeat |-> now,
                      heartbeat_at |-> now + HEARTBEAT_INTERVAL,
                      stopped_by |-> "none"]]
    /\ UNCHANGED <<checking, system, disk_usage, record_errors, samples,
                   monitor_ticks, monitor_inbox, updates>>
    /\ UNCHANGED <<broadcastVars, producerVars, schedulerVars, serviceVars>>

\* Ws::disconnect: Unsubscribe with the id of the connection is sent to
\* the SystemMonitor and the actor stops
disconnect(c, by) ==
    /\ monitor_inbox' =
         IF ws[c].subscriber_id # None
         THEN Append(monitor_inbox, Unwrap(ws[c].subscriber_id))
         ELSE monitor_inbox
    /\ ws' = [ws EXCEPT ![c].state = "stopped", ![c].stopped_by = by]

\* StreamHandler::handle for a Ping or a Pong frame of the client (Text
\* and Binary frames are echoed and change nothing)
Ws_handle_ping(c) ==
    /\ ws[c].state = "open"
    /\ ws[c].last_heartbeat # now
    /\ ws' = [ws EXCEPT ![c].last_heartbeat = now]
    /\ UNCHANGED <<monitor, checking, system, disk_usage, record_errors,
                   samples, monitor_ticks, monitor_inbox, updates>>
    /\ UNCHANGED <<broadcastVars, producerVars, schedulerVars, serviceVars>>

\* StreamHandler::handle for a Close frame of the client
Ws_handle_close(c) ==
    /\ ws[c].state = "open"
    /\ disconnect(c, "close")
    /\ UNCHANGED <<monitor, checking, system, disk_usage, record_errors,
                   samples, monitor_ticks, updates>>
    /\ UNCHANGED <<broadcastVars, producerVars, schedulerVars, serviceVars>>

\* the heartbeat disconnects a client last heard of CLIENT_TIMEOUT ago
TimedOut_at_timeout(c) ==
    now - ws[c].last_heartbeat >= CLIENT_TIMEOUT

\* the test of the heartbeat closure
TimedOut(c) ==
    now - ws[c].last_heartbeat > CLIENT_TIMEOUT

\* one run of the closure Ws::heartbeat passes to run_interval, when its
\* timer is due
Ws_heartbeat(c) ==
    /\ ws[c].state = "open"
    /\ ws[c].heartbeat_at = now
    /\ IF TimedOut(c)
       THEN disconnect(c, "timeout")
       ELSE /\ ws' = [ws EXCEPT ![c].heartbeat_at = @ + HEARTBEAT_INTERVAL]
            /\ UNCHANGED monitor_inbox
    /\ UNCHANGED <<monitor, checking, system, disk_usage, record_errors,
                   samples, monitor_ticks, updates>>
    /\ UNCHANGED <<broadcastVars, producerVars, schedulerVars, serviceVars>>

\* the clock advances once every heartbeat due now has run
AdvanceSeconds ==
    \E d \in HeartbeatSteps :
        /\ \A c \in Connections :
             ws[c].state = "open" => ws[c].heartbeat_at > now
        /\ now + d <= MaxSeconds
        /\ now' = now + d
        /\ UNCHANGED <<alerts, outbox, last_alerted, last_tick, pc,
                       sent_emails, evals, tick, backlog, pushes>>
        /\ UNCHANGED <<producerVars, schedulerVars, monitorVars, serviceVars>>

\* the SystemMonitor and its subscribers, which come and go
NextMonitor ==
    \/ SystemMonitor_started
    \/ check_filesystem_usage
    \/ handle_Unsubscribe
    \/ \E c \in Connections : Ws_started(c)
    \/ \E c \in Connections : Ws_handle_close(c)

SpecMonitor ==
    InitMonitor /\ [][NextMonitor]_vars

\* the SystemMonitor without subscribers, while Twitter pushes to OUTBOX
\* as well and the Broadcast actor does not drain it
NextAlerts ==
    \/ SystemMonitor_started
    \/ check_filesystem_usage
    \/ send_alert("Twitter")

SpecAlerts ==
    InitMonitor /\ [][NextAlerts]_vars

\* the configurations the SystemMonitor runs with while the clock of the
\* connections advances: one filesystem and one stream
WsSetups ==
    {x \in MonitorSetups : Len(x[1].filesystems) = 1 /\ Len(x[2]) = 1}

InitWs ==
    /\ BroadcastStarted(<<>>)
    /\ NoProducers
    /\ NoScheduler
    /\ \E x \in WsSetups :
         \E sys \in Systems(x[1]) : MonitorNew(x[1], x[2], sys)
    /\ NoServices

\* the connections over time, and the SystemMonitor that serves them
NextWs ==
    \/ SystemMonitor_started
    \/ check_filesystem_usage
    \/ handle_Unsubscribe
    \/ \E c \in Connections : Ws_started(c)
    \/ \E c \in Connections : Ws_handle_ping(c)
    \/ \E c \in Connections : Ws_handle_close(c)
    \/ \E c \in Connections : Ws_heartbeat(c)
    \/ AdvanceSeconds

SpecWs ==
    InitWs /\ [][NextWs]_vars

\* ------------------------------------------------------------ News actor
\* what NewYorkTimes::most_popular_viewed returns: an error, a response
\* whose articles carry a published_date of the form %Y-%m-%d, or a
\* response with an article whose published_date has another form
FetchResponses == {"Err", "Ok", "OkOtherDate"}

\* a panic of the thread that runs the call, in place of its result
Panic ==
    [ok |-> FALSE, value |-> "panic"]

\* build_new_york_times_articles: the sections, the error of the fetch, or
\* the panic of NaiveDate::parse_from_str(..).unwrap()
build_new_york_times_articles(response) ==
    CASE response = "Err" -> Err("NewsError")
      [] response = "Ok" -> Ok("sections")
      [] response = "OkOtherDate" -> Panic

\* the thread of the News actor has panicked
NewsPanicked ==
    \E i \in 1..Len(fetches) : fetches[i].result = Panic

\* Handler<ScheduledTaskMessage> for News, FetchNews: build_newscast with
\* the response the fetch returns
News_handle(response) ==
    LET articles == build_new_york_times_articles(response)
        r == ArrayQueue_push(outbox, Newscast)
    IN  /\ Len(fetches) < MaxFetches
        /\ ~NewsPanicked
        /\ IF articles = Panic
           THEN /\ fetches' = Append(fetches, [response |-> response,
                                               result |-> Panic])
                /\ UNCHANGED <<outbox, pushed>>
           ELSE IF ~articles.ok
           THEN /\ fetches' = Append(fetches, [response |-> response,
                                               result |-> articles])
                /\ UNCHANGED <<outbox, pushed>>
           ELSE /\ outbox' = r.queue
                /\ pushed' = Append(pushed, [service |-> "News",
                                             event |-> Newscast,
                                             result |-> r.result])
                /\ fetches' = Append(fetches,
                       [response |-> response,
                        result |-> IF r.result = "Ok" THEN Ok("unit")
                                   ELSE Err("OutboxFullError")])
        /\ UNCHANGED <<alerts, last_alerted, now, last_tick, pc, sent_emails,
                       evals, tick, backlog, pushes>>
        /\ UNCHANGED <<schedulerVars, monitorVars>>
        /\ UNCHANGED <<twitter, stream, tweets, main>>

InitNews ==
    /\ BroadcastStarted(<<>>)
    /\ NoProducers
    /\ NoScheduler
    /\ NoMonitor
    /\ NoServices

NextNews ==
    \/ \E response \in FetchResponses : News_handle(response)
    \/ send_alert("Twitter")

SpecNews ==
    InitNews /\ [][NextNews]_vars

\* -------------------------------------------------------- Twitter actor
\* a String as the sequence of its characters
Str(chars) ==
    chars

\* str::contains: the term is a contiguous part of the text
contains(text, t) ==
    \E i \in 1..(Len(text) - Len(t) + 1) :
        SubSeq(text, i, i + Len(t) - 1) = t

\* the texts of the tweets of the model
Texts ==
    {Str(<<"g", "o">>), Str(<<"e", "r", "g", "o">>), Str(<<"r", "s">>),
     Str(<<"o", "g">>)}

\* TwitterConfig.terms: the groups and their terms
TwitterConfig ==
    {[terms |-> <<[group_name |-> "a", terms |-> <<Str(<<"g", "o">>)>>]>>],
     [terms |-> <<[group_name |-> "a", terms |-> <<Str(<<"g", "o">>)>>],
                  [group_name |-> "b",
                   terms |-> <<Str(<<"r", "s">>), Str(<<"e", "r">>)>>]>>]}

\* what the stream yields: Ok(StreamMessage::Tweet), another StreamMessage
\* or an error; the id of a tweet is its position in the stream
Tweet(id, text) ==
    [kind |-> "Tweet", id |-> id, text |-> text]

StreamItems(id) ==
    {Tweet(id, text) : text \in Texts} \cup {[kind |-> "Ping"],
                                             [kind |-> "Error"]}

\* models::NewTweet::from_egg_mode_tweet
from_egg_mode_tweet(group_name, egg_mode_tweet) ==
    [twitter_tweet_id |-> egg_mode_tweet.id, group_name |-> <<group_name>>,
     text |-> egg_mode_tweet.text]

\* term.terms.iter().any(|t| egg_mode_tweet.text.contains(t))
tweet_contains_term(term, egg_mode_tweet) ==
    \E i \in 1..Len(term.terms) : contains(egg_mode_tweet.text, term.terms[i])

\* the oldest tweet leaves only a buffer that holds more than the maximum
push_tweet_above_max(buffer, group_name, new_tweet) ==
    IF group_name \notin DOMAIN buffer
    THEN Insert(buffer, group_name, <<new_tweet>>)
    ELSE LET queue == buffer[group_name]
         IN  Insert(buffer, group_name,
                    Append(IF Len(queue) > MAX_TWEETS_TO_SEND
                           THEN Tail(queue) ELSE queue,
                           new_tweet))

\* the tweet_buffer after the new tweet of a group: a new VecDeque for a
\* group without one, else pop_front at MAX_TWEETS_TO_SEND and push_back
push_tweet(buffer, group_name, new_tweet) ==
    IF group_name \notin DOMAIN buffer
    THEN Insert(buffer, group_name, <<new_tweet>>)
    ELSE LET queue == buffer[group_name]
         IN  Insert(buffer, group_name,
                    Append(IF Len(queue) >= MAX_TWEETS_TO_SEND
                           THEN Tail(queue) ELSE queue,
                           new_tweet))

\* the tweet reaches the buffer only when its row was stored
Buffered_if_recorded(recorded) ==
    recorded

\* whether the closure reaches the buffer after record_tweet: its error is
\* logged and the closure goes on
Buffered(recorded) ==
    TRUE

\* `for term in &actor.config.terms` from the n-th group on, for a tweet:
\* the rows and the buffer it leaves; failing is the group whose
\* record_tweet call fails, 0 for none
RECURSIVE for_terms(_, _, _, _, _)
for_terms(n, egg_mode_tweet, failing, rows, buffer) ==
    IF n > Len(twitter.config.terms)
    THEN [rows |-> rows, buffer |-> buffer]
    ELSE LET term == twitter.config.terms[n]
             new_tweet == from_egg_mode_tweet(term.group_name, egg_mode_tweet)
             recorded == failing # n
         IN  IF tweet_contains_term(term, egg_mode_tweet)
             THEN for_terms(n + 1, egg_mode_tweet, failing,
                      IF recorded THEN Append(rows, new_tweet) ELSE rows,
                      IF Buffered(recorded)
                      THEN push_tweet(buffer, term.group_name, new_tweet)
                      ELSE buffer)
             ELSE for_terms(n + 1, egg_mode_tweet, failing, rows, buffer)

\* the tweets that matched group a before the run: n tweets, all stored
EarlierTweets(n) ==
    [i \in 1..n |-> Tweet(i, Str(<<"g", "o">>))]

\* the numbers of tweets taken before the run
Earlier ==
    {0, MAX_TWEETS_TO_SEND - 1}

InitTwitterActor ==
    /\ BroadcastStarted(<<>>)
    /\ NoProducers
    /\ NoScheduler
    /\ NoMonitor
    /\ NoNews
    /\ NoMain
    /\ \E config \in TwitterConfig, n \in Earlier :
         LET rows == [i \in 1..n |->
                         from_egg_mode_tweet("a", EarlierTweets(n)[i])]
         IN  TwitterNew(config, EarlierTweets(n), rows,
                        IF n = 0 THEN <<>> ELSE [g \in {"a"} |-> rows])

\* one step of the fold Twitter::started runs over the stream: the
\* closure for the next item
Twitter_fold(item, failing) ==
    /\ Len(stream.taken) < MaxItems
    /\ IF item.kind = "Tweet"
       THEN LET done == for_terms(1, item, failing, tweets,
                                  twitter.tweet_buffer)
            IN  /\ failing # 0 =>
                      /\ failing <= Len(twitter.config.terms)
                      /\ tweet_contains_term(twitter.config.terms[failing],
                                             item)
                /\ tweets' = done.rows
                /\ twitter' = [twitter EXCEPT !.tweet_buffer = done.buffer]
       ELSE /\ failing = 0
            /\ UNCHANGED <<twitter, tweets>>
    /\ stream' = [stream EXCEPT !.taken = Append(@, item)]
    /\ UNCHANGED <<fetches, main>>
    /\ UNCHANGED <<broadcastVars, producerVars, schedulerVars, monitorVars>>

NextTwitterActor ==
    \E item \in StreamItems(Len(stream.earlier) + Len(stream.taken) + 1),
       failing \in 0..2 :
        Twitter_fold(item, failing)

SpecTwitterActor ==
    InitTwitterActor /\ [][NextTwitterActor]_vars

\* ------------------------------------------------------------- fn main
\* the alert rules of the configurations main starts with
MainAlerts ==
    {[alert_interval |-> None, event |-> "HighDiskUsage",
      mediums |-> <<"Email">>, alert_type |-> "Alarm"],
     [alert_interval |-> None, event |-> "HighDiskUsage",
      mediums |-> <<"Email">>, alert_type |-> "Digest"],
     [alert_interval |-> None, event |-> "Newscast",
      mediums |-> <<"Email">>, alert_type |-> "Digest"]}

\* broadcast.alerts: no rule, one rule or two rules, also for one event
AlertLists ==
    {<<>>} \cup {<<a>> : a \in MainAlerts}
           \cup {<<a, b>> : a \in MainAlerts, b \in MainAlerts}

\* struct BroadcastConfig
BroadcastConfig ==
    [email : {None, Some("email")}, alerts : AlertLists]

\* struct Config: the sections main's constructors read; an optional
\* section is there or not
Config ==
    [broadcast : BroadcastConfig,
     twitter : {None, Some("twitter")},
     system_monitor : {None, Some("system_monitor")},
     news : {None, Some("news")}]

\* what main finds when it runs: the configuration file (its Config, or
\* the error of reading and parsing it), whether Postgres can be reached
\* and whether the address can be bound
Environments ==
    [file : {Ok(config) : config \in Config}
                \cup {Err("ConfigParseError")},
     storage : BOOLEAN,
     bind : BOOLEAN]

\* main with nothing done yet
MainNew(env) ==
    main = [pc |-> "initialize_from_file", env |-> Some(env),
            started |-> <<>>, exit |-> None]

\* config()
config ==
    Unwrap(main.env).file.value

\* main returns the error or panics: the process exits
Exit(with) ==
    [main EXCEPT !.pc = "exited", !.exit = Some(with)]

\* main goes on to the next statement
Goto(pc_next) ==
    [main EXCEPT !.pc = pc_next]

\* main goes on to the next statement with the actor started
Started(actor, pc_next) ==
    [main EXCEPT !.pc = pc_next, !.started = Append(@, actor)]

\* config.alerts.iter().map(|alert| (alert.event, alert)).collect() into
\* the HashMap: a later rule of an event replaces the earlier one
RECURSIVE collect(_, _)
collect(alert_list, map) ==
    IF alert_list = <<>>
    THEN map
    ELSE collect(Tail(alert_list),
                 Insert(map, Head(alert_list).event, Head(alert_list)))

\* no Broadcast actor instead of the error without an email section
Broadcast_new_lenient(broadcast) ==
    IF broadcast.alerts = <<>>
    THEN Ok(None)
    ELSE IF broadcast.email # None
    THEN Ok(Some(collect(broadcast.alerts, <<>>)))
    ELSE Ok(None)

\* Broadcast::new: Ok(None) without alerts, else the rule map with an
\* email section and Error::unconfigured_email() without one
Broadcast_new(broadcast) ==
    IF broadcast.alerts = <<>>
    THEN Ok(None)
    ELSE IF broadcast.email # None
    THEN Ok(Some(collect(broadcast.alerts, <<>>)))
    ELSE Err("UnconfiguredEmail")

\* what main changes besides its own position and the rule map
MainFrame ==
    /\ UNCHANGED <<outbox, last_alerted, now, last_tick, pc, sent_emails,
                   evals, tick, backlog, pushes>>
    /\ UNCHANGED <<producerVars, schedulerVars, monitorVars>>
    /\ UNCHANGED <<twitter, stream, tweets, fetches>>

\* config::initialize_from_file()?
main_initialize_from_file ==
    /\ main.pc = "initialize_from_file"
    /\ main' = IF Unwrap(main.env).file.ok
               THEN Goto("initialize_postgres")
               ELSE Exit(Unwrap(main.env).file)
    /\ UNCHANGED alerts
    /\ MainFrame

\* db::initialize_postgres()?
main_initialize_postgres ==
    /\ main.pc = "initialize_postgres"
    /\ main' = IF Unwrap(main.env).storage
               THEN Goto("Broadcast")
               ELSE Exit(Err("DbConnectError"))
    /\ UNCHANGED alerts
    /\ MainFrame

\* Broadcast::new()?.map(|b| b.start())
main_Broadcast ==
    LET b == Broadcast_new(config.broadcast)
    IN  /\ main.pc = "Broadcast"
        /\ IF ~b.ok
           THEN /\ main' = Exit(b)
                /\ UNCHANGED alerts
           ELSE IF b.value = None
           THEN /\ main' = Goto("Twitter")
                /\ UNCHANGED alerts
           ELSE /\ main' = Started("Broadcast", "Twitter")
                /\ alerts' = Unwrap(b.value)
        /\ MainFrame

\* Twitter::new().map(|t| t.start())
main_Twitter ==
    /\ main.pc = "Twitter"
    /\ main' = IF config.twitter # None
               THEN Started("Twitter", "SystemMonitor")
               ELSE Goto("SystemMonitor")
    /\ UNCHANGED alerts
    /\ MainFrame

\* SystemMonitor::new().start(), new unwrapping config().system_monitor
main_SystemMonitor ==
    /\ main.pc = "SystemMonitor"
    /\ main' = IF config.system_monitor # None
               THEN Started("SystemMonitor", "News")
               ELSE Exit(Panic)
    /\ UNCHANGED alerts
    /\ MainFrame

\* News::new().start(), new unwrapping config().news
main_News ==
    /\ main.pc = "News"
    /\ main' = IF config.news # None
               THEN Started("News", "Scheduler")
               ELSE Exit(Panic)
    /\ UNCHANGED alerts
    /\ MainFrame

\* Scheduler::new(), add_task_runner and scheduler.start()
main_Scheduler ==
    /\ main.pc = "Scheduler"
    /\ main' = Started("Scheduler", "HttpServer")
    /\ UNCHANGED alerts
    /\ MainFrame

\* HttpServer::new(..).bind("0.0.0.0:8088")?.run()
main_HttpServer ==
    /\ main.pc = "HttpServer"
    /\ main' = IF Unwrap(main.env).bind
               THEN Started("HttpServer", "serving")
               ELSE Exit(Err("IoError"))
    /\ UNCHANGED alerts
    /\ MainFrame

InitMain ==
    /\ BroadcastStarted(<<>>)
    /\ NoProducers
    /\ NoScheduler
    /\ NoMonitor
    /\ NoTwitter
    /\ NoNews
    /\ \E env \in Environments : MainNew(env)

NextMain ==
    \/ main_initialize_from_file
    \/ main_initialize_postgres
    \/ main_Broadcast
    \/ main_Twitter
    \/ main_SystemMonitor
    \/ main_News
    \/ main_Scheduler
    \/ main_HttpServer

SpecMain ==
    InitMain /\ [][NextMain]_vars

\* ------------------------------------------------- reading the histories
\* the send_email calls made for the i-th popped event
EmailsOf(i) ==
    {m \in 1..Len(sent_emails) : sent_emails[m].eval = i}

\* the i-th popped event found a rule with an alert_interval
HasInterval(i) ==
    evals[i].rule # None /\ Unwrap(evals[i].rule).alert_interval # None

IntervalOf(i) ==
    Unwrap(Unwrap(evals[i].rule).alert_interval)

\* no event of the same key was sent before the i-th popped event
FirstSend(i) ==
    \A j \in 1..(i - 1) : ~(evals[j].key = evals[i].key /\ evals[j].send_now)

\* the i-th popped event was sent and its delivery loop ran to its end
Completed(i) ==
    evals[i].send_now /\ evals[i].recorded # None

\* ------------------------------------------------------------------ C1
\* C1: for an event key whose rule has an alert_interval, two sends are
\* separated by more than the interval: a later event of the key is sent
\* only at an instant more than alert_interval after the LAST_ALERTED value
\* written for the earlier one, and so is every email of it after every
\* email of the earlier one; events of one key drained in one tick within
\* the interval produce one send (exactly one when the key was never
\* alerted before).
C1_Throttled ==
    /\ \A i, j \in 1..Len(evals) :
         (/\ i < j
          /\ evals[i].key = evals[j].key
          /\ evals[i].send_now
          /\ evals[j].send_now
          /\ HasInterval(j))
         => /\ evals[i].recorded # None
            /\ evals[j].at - Unwrap(evals[i].recorded) > IntervalOf(j)
            /\ \A a \in EmailsOf(i), b \in EmailsOf(j) :
                 sent_emails[b].at - sent_emails[a].at > IntervalOf(j)
    /\ \A i \in 1..Len(evals) :
         HasInterval(i) =>
           LET same == {j \in i..Len(evals) :
                          /\ evals[j].key = evals[i].key
                          /\ evals[j].tick = evals[i].tick
                          /\ evals[j].at - evals[i].at <= IntervalOf(i)}
               sent == {j \in same : evals[j].send_now}
           IN  /\ Cardinality(sent) <= 1
               /\ evals[i].last = None => sent = {i}

\* three events of one key under a rule with an interval: the first sent,
\* the second suppressed in the same tick, the third sent again later
C1_Witness ==
    \E i, j, l \in 1..Len(evals) :
        /\ i < j /\ j < l
        /\ evals[i].key = evals[j].key /\ evals[j].key = evals[l].key
        /\ HasInterval(i)
        /\ evals[i].tick = evals[j].tick
        /\ evals[i].send_now /\ ~evals[j].send_now /\ evals[l].send_now
        /\ EmailsOf(i) # {} /\ EmailsOf(l) # {}

\* ------------------------------------------------------------------ C2
\* C2: under an Alarm rule the emails of the first send for a key have the
\* subject "[PULSE] <subject>" and the emails of every later send for that
\* key "[PULSE] Retriggered: <subject>", whatever was sent for other keys.
C2_AlarmPrefix ==
    \A m \in 1..Len(sent_emails) :
        LET i == sent_emails[m].eval
        IN  Unwrap(evals[i].rule).alert_type = "Alarm" =>
              sent_emails[m].subject =
                (IF FirstSend(i) THEN "[PULSE]" ELSE "[PULSE] Retriggered:")
                \o " " \o subject_and_body(evals[i].event)[1]

\* an Alarm rule: a first send for one key, then a first send for another
\* key, then a retriggered send for the first key
C2_Witness ==
    \E a, b, c \in 1..Len(sent_emails) :
        LET i == sent_emails[a].eval
            j == sent_emails[b].eval
            l == sent_emails[c].eval
        IN  /\ i < j /\ j < l
            /\ evals[i].key = evals[l].key /\ evals[j].key # evals[i].key
            /\ Unwrap(evals[i].rule).alert_type = "Alarm"
            /\ Unwrap(evals[j].rule).alert_type = "Alarm"
            /\ sent_emails[a].subject = "[PULSE] High Disk Usage"
            /\ sent_emails[b].subject = "[PULSE] High Disk Usage"
            /\ sent_emails[c].subject = "[PULSE] Retriggered: High Disk Usage"

\* ------------------------------------------------------------------ C3
\* C3: under a Digest rule every email, of a first or a repeated send, has
\* the subject "[PULSE] <subject>".
C3_DigestPrefix ==
    \A m \in 1..Len(sent_emails) :
        LET i == sent_emails[m].eval
        IN  Unwrap(evals[i].rule).alert_type = "Digest" =>
              sent_emails[m].subject =
                "[PULSE] " \o subject_and_body(evals[i].event)[1]

\* a Digest rule and two sends for one key
C3_Witness ==
    \E a, b \in 1..Len(sent_emails) :
        LET i == sent_emails[a].eval
            j == sent_emails[b].eval
        IN  /\ i < j
            /\ evals[i].key = evals[j].key
            /\ Unwrap(evals[j].rule).alert_type = "Digest"
            /\ ~FirstSend(j)

\* ------------------------------------------------------------------ C4
\* C4: when a send_email call returns an error the Broadcast actor keeps
\* running: it is still draining or waiting for its next tick.
C4_SurvivesEmailError ==
    (\E m \in 1..Len(sent_emails) : ~sent_emails[m].ok)
        => pc \in {"idle", "draining"}

\* ------------------------------------------------------------------ C5
\* C5: when the send for an event fails, LAST_ALERTED holds an entry for
\* the event's key, written at the time of the attempt.
C5_FailedSendRecorded ==
    \A m \in 1..Len(sent_emails) :
        ~sent_emails[m].ok =>
            LET i == sent_emails[m].eval
            IN  /\ evals[i].key \in DOMAIN last_alerted
                /\ last_alerted[evals[i].key] >= evals[i].at

\* ------------------------------------------------------------------ C6
\* what one pop may do to LAST_ALERTED
C6_Step ==
    Len(evals') = Len(evals) + 1 =>
        LET i == Len(evals')
            e == evals'[i]
            new == {m \in 1..Len(sent_emails') : m > Len(sent_emails)}
        IN  IF e.send_now /\ pc' # "panicked"
            THEN /\ DOMAIN last_alerted' = DOMAIN last_alerted \cup {e.key}
                 /\ last_alerted'[e.key] = now'
                 /\ last_alerted'[e.key] >= e.at
                 /\ \A m \in new : sent_emails'[m].at <= last_alerted'[e.key]
                 /\ Cardinality(new) = Len(Unwrap(e.rule).mediums)
                 /\ \A k \in DOMAIN last_alerted \ {e.key} :
                        last_alerted'[k] = last_alerted[k]
            ELSE last_alerted' = last_alerted

\* C6: a step that completes the send for an event writes the instant at
\* which the send completed under the event's key: it is the clock reading
\* after the delivery loop (no email of the send is later), no other entry
\* changes, and a delivery loop that does not run to its end leaves
\* LAST_ALERTED as it was.
C6_AlertedAfterDelivery ==
    [][C6_Step]_vars

\* a completed send whose emails took time, recorded while another key
\* holds its own earlier instant
C6_Witness ==
    /\ evals # <<>>
    /\ LET i == Len(evals)
       IN  /\ Completed(i)
           /\ EmailsOf(i) # {}
           /\ Unwrap(evals[i].recorded) > evals[i].at
           /\ last_alerted[evals[i].key] = now
           /\ \E k \in DOMAIN last_alerted :
                  k # evals[i].key /\ last_alerted[k] < evals[i].at

\* ------------------------------------------------------------------ C7
\* what the pop of an event without a rule does
C7_Step ==
    (/\ pc = "draining"
     /\ outbox # <<>>
     /\ outbox' = Tail(outbox)
     /\ Head(outbox).type \notin DOMAIN alerts)
    => /\ sent_emails' = sent_emails
       /\ last_alerted' = last_alerted
       /\ Len(evals') = Len(evals) + 1
       /\ ~evals'[Len(evals')].send_now

\* C7: popping an event whose type has no AlertConfig makes no send_email
\* call and leaves LAST_ALERTED unchanged.
C7_NoRuleNoSend ==
    [][C7_Step]_vars

\* an event without a rule was popped after another event had been sent
C7_Witness ==
    \E i, j \in 1..Len(evals) :
        /\ i < j
        /\ Completed(i) /\ EmailsOf(i) # {}
        /\ evals[j].event.type \notin DOMAIN alerts
        /\ ~evals[j].send_now

\* ------------------------------------------------------------------ C8
\* C8: under a rule without alert_interval every popped event of the type
\* is sent, whatever LAST_ALERTED holds for its key: send_email is called
\* for it, once per entry of mediums when the delivery loop runs to its end.
C8_NoIntervalAlwaysSent ==
    \A i \in 1..Len(evals) :
        LET t == evals[i].event.type
        IN  (t \in DOMAIN alerts /\ alerts[t].alert_interval = None) =>
              /\ evals[i].send_now
              /\ alerts[t].mediums # <<>> => EmailsOf(i) # {}
              /\ Completed(i) =>
                   Cardinality(EmailsOf(i)) = Len(alerts[t].mediums)

\* two events of one key sent at the same instant of one tick, under a
\* rule without an interval
C8_Witness ==
    \E i, j \in 1..Len(evals) :
        /\ i < j
        /\ evals[i].key = evals[j].key
        /\ evals[i].tick = evals[j].tick
        /\ evals[i].rule # None
        /\ Unwrap(evals[i].rule).alert_interval = None
        /\ Completed(i) /\ Completed(j)
        /\ evals[j].at = Unwrap(evals[i].recorded)
        /\ Cardinality(EmailsOf(i) \cup EmailsOf(j))
             = 2 * Len(Unwrap(evals[i].rule).mediums)
        /\ EmailsOf(j) # {}

\* ------------------------------------------------------------------ C9
\* C9: a tick ends only when every event that was queued when it started
\* has been popped and evaluated.
C9_TickDrainsOutbox ==
    pc # "draining" => backlog = 0

\* ------------------------------------------------------------------ C10
\* event_key on HighDiskUsage events: equal for equal mounts and different
\* for different mounts, whatever the usage figures
KeyOfMount ==
    \A e1, e2 \in {e \in BroadcastEvent : e.type = "HighDiskUsage"} :
        (event_key(e1) = event_key(e2))
            <=> (e1.filesystem_mount = e2.filesystem_mount)

\* C10: the key of a HighDiskUsage event is a function of its mount alone,
\* different for different mounts, and so a popped event of a mount for
\* which nothing was sent before is sent, whatever was sent for other
\* mounts in the same tick, also under a rule with an interval.
C10_KeyedPerMount ==
    /\ KeyOfMount
    /\ \A j \in 1..Len(evals) :
         (/\ evals[j].event.type = "HighDiskUsage"
          /\ evals[j].rule # None
          /\ \A i \in 1..(j - 1) :
               (evals[i].event.type = "HighDiskUsage" /\ evals[i].send_now)
                 => evals[i].event.filesystem_mount
                      # evals[j].event.filesystem_mount)
         => evals[j].send_now

\* events of two mounts sent at the same instant of one tick under a rule
\* with an interval
C10_Witness ==
    \E i, j \in 1..Len(evals) :
        /\ i < j
        /\ evals[i].tick = evals[j].tick
        /\ evals[i].event.type = "HighDiskUsage"
        /\ evals[j].event.type = "HighDiskUsage"
        /\ evals[i].event.filesystem_mount # evals[j].event.filesystem_mount
        /\ HasInterval(j)
        /\ Completed(i) /\ Completed(j)
        /\ evals[j].at = Unwrap(evals[i].recorded)
        /\ EmailsOf(i) # {} /\ EmailsOf(j) # {}

\* ------------------------------------------------------------------ C11
\* what the popped TwitterAlert events show of event_key: equal keys for
\* events of one group only
KeyOfGroup ==
    \A i, j \in 1..Len(evals) :
        (evals[i].event.type = "TwitterAlert"
         /\ evals[j].event.type = "TwitterAlert")
        => ((evals[i].key = evals[j].key)
              <=> (evals[i].event.group_name = evals[j].event.group_name))

\* C11: TwitterAlert events key on the type and the group: popped events
\* of different groups have different keys, and a popped event of a group
\* for which nothing was sent before is sent, whatever was sent for other
\* groups inside the interval.
C11_KeyedPerGroup ==
    /\ KeyOfGroup
    /\ \A j \in 1..Len(evals) :
         (/\ evals[j].event.type = "TwitterAlert"
          /\ evals[j].rule # None
          /\ \A i \in 1..(j - 1) :
               (evals[i].event.type = "TwitterAlert" /\ evals[i].send_now)
                 => evals[i].event.group_name # evals[j].event.group_name)
         => evals[j].send_now

\* ------------------------------------------------------------------ C12
\* what a step may do to the keys of LAST_ALERTED
C12_Step ==
    /\ DOMAIN last_alerted \subseteq DOMAIN last_alerted'
    /\ \A k \in DOMAIN last_alerted' :
         \E m \in 1..Len(sent_emails') :
             evals'[sent_emails'[m].eval].key = k

\* C12: LAST_ALERTED holds an entry for a key only if send_email was called
\* for an event of that key, and no step removes an entry; under a rule with
\* an empty mediums list no entry is ever created.
C12_EntryOnlyAfterSend ==
    [][C12_Step]_vars

\* ------------------------------------------------------------------ C13
\* what a step may do to OUTBOX, and what a push returns
C13_Step ==
    /\ Len(outbox') <= OutboxCapacity
    /\ Len(pushed') = Len(pushed) + 1 =>
         LET call == pushed'[Len(pushed')]
         IN  IF Len(outbox) < OutboxCapacity
             THEN call.result = "Ok" /\ outbox' = Append(outbox, call.event)
             ELSE call.result = "Full" /\ outbox' = outbox

\* C13: OUTBOX never holds more than its capacity; a push onto a queue that
\* holds fewer events succeeds and appends the event, and a push onto a
\* queue that holds as many returns Full and leaves the queue as it was.
C13_PushFullAtCapacity ==
    [][C13_Step]_vars

\* a push was refused while OUTBOX held its capacity, and the same service
\* pushed again with success once the Broadcast actor had popped
C13_Witness ==
    \E i, j \in 1..Len(pushed) :
        /\ i < j
        /\ pushed[i].service = pushed[j].service
        /\ pushed[i].result = "Full"
        /\ pushed[j].result = "Ok"
        /\ Len(outbox) = OutboxCapacity

\* ------------------------------------------------------------------ C14
\* the events popped so far, in pop order
Popped ==
    [i \in 1..Len(evals) |-> evals[i].event]

\* the events of the pushes that returned Ok, in push order
Accepted ==
    LET ok == SelectSeq(pushed, LAMBDA call : call.result = "Ok")
    IN  [i \in 1..Len(ok) |-> ok[i].event]

\* the events of one service in a sequence of events
From(service, events) ==
    SelectSeq(events, LAMBDA e : ProducerOf(e) = service)

\* C14: for every service, the events of the service popped so far followed
\* by its events still queued are the events it pushed with success, in
\* push order, however its pushes interleave with those of other services.
C14_FifoPerProducer ==
    \A service \in Producers :
        From(service, Popped \o outbox) = From(service, Accepted)

\* SystemMonitor, Twitter, SystemMonitor pushed in this order; the first
\* event was popped before the last was pushed, and all three were popped
C14_Witness ==
    /\ Len(pushed) >= 3 /\ Len(evals) >= 3
    /\ pushed[1].service = "SystemMonitor"
    /\ pushed[2].service = "Twitter"
    /\ pushed[3].service = "SystemMonitor"
    /\ \A i \in 1..3 : pushed[i].result = "Ok" /\ evals[i].event = pushed[i].event
    /\ evals[1].tick < evals[3].tick

\* ------------------------------------------------------------------ C15
\* how often an event occurs in a sequence of events
Count(events, e) ==
    Cardinality({i \in 1..Len(events) : events[i] = e})

\* C15: every event is popped or queued exactly as often as it was pushed
\* with success: none is popped twice, none is popped that was not pushed,
\* and none leaves OUTBOX other than by a pop.
C15_PushedOncePoppedOnce ==
    \A service \in Producers, n \in 1..MaxProduced :
        LET e == EventOf(service, n)
        IN  /\ Count(Popped, e) + Count(outbox, e) = Count(Accepted, e)
            /\ Count(Popped, e) <= Count(Accepted, e)

\* three services pushed, a push was refused, and events of all three were
\* popped while another is still queued
C15_Witness ==
    /\ \A service \in Producers :
         \E i \in 1..Len(evals) : ProducerOf(evals[i].event) = service
    /\ \E i \in 1..Len(pushed) : pushed[i].result = "Full"
    /\ pc = "draining"
    /\ outbox # <<>>

\* --------------------------------------- reading the Scheduler's history
\* the services registered with the Scheduler
Registered ==
    {scheduler.services[i] : i \in 1..Len(scheduler.services)}

\* every closure due at the present instant has run
Quiet ==
    /\ started_at # None
    /\ \A c \in DOMAIN intervals : intervals[c].at > local_now

\* the runs of the closure of schedule s and a service that fired
FiredRuns(s, service) ==
    {i \in 1..Len(runs) :
        runs[i].schedule = s /\ runs[i].service = service /\ runs[i].fired}

\* the insert_message calls made for schedule s: one per run that fired
InsertCalls(s) ==
    Cardinality({i \in 1..Len(runs) : runs[i].schedule = s /\ runs[i].fired})

\* the messages of schedule s a service has received
Received(service, s) ==
    Count(mailboxes[service], scheduler.config.schedules[s].message)

\* the occurrences of a cron schedule since the Scheduler started
Occurrences(cron_schedule) ==
    (local_now \div cron_schedule.every)
        - (Unwrap(started_at) \div cron_schedule.every)

\* ------------------------------------------------------------------ C16
\* C16: once the closures of a tick have run, the number of insert_message
\* calls made for a schedule is the number of its messages each registered
\* service has received while no service has stopped: k firings give k
\* records and k messages for every service, whatever the number of
\* services.
C16_OneRecordPerFiring ==
    (Quiet /\ stopped = {}) =>
        \A s \in 1..Len(scheduler.config.schedules), service \in Registered :
            InsertCalls(s) = Received(service, s)

\* ------------------------------------------------------------------ C17
\* C17: a closure of a schedule with a cron expression has fired at most
\* once per occurrence of the expression since the start (no firing before
\* its occurrence, none twice), and once the closures of a tick have run
\* every occurrence but the latest has had its firing (none skipped), for
\* every tick_ms.
C17_OneFiringPerOccurrence ==
    \A c \in DOMAIN intervals :
        intervals[c].cron_schedule # None =>
            LET fired == Cardinality(FiredRuns(c[1], scheduler.services[c[2]]))
                due == Occurrences(Unwrap(intervals[c].cron_schedule))
            IN  /\ fired <= due
                /\ Quiet => due - 1 <= fired

\* ------------------------------------------------------------------ C18
\* C18: a schedule whose cron expression does not parse never fires: no
\* insert_message call is made for it, no row of it is stored and no
\* service receives its message.
C18_UnparsableCronDropped ==
    \A s \in 1..Len(scheduler.config.schedules) :
        LET schedule == scheduler.config.schedules[s]
        IN  (schedule.cron # None /\ CronOf(schedule) = None) =>
              /\ InsertCalls(s) = 0
              /\ Count(messages, message_to_string(schedule.message)) = 0
              /\ \A service \in Recipients : Received(service, s) = 0

\* ------------------------------------------------------------------ C19
\* C19: once the closures of a tick have run, insert_message has been
\* called for every occurrence but the latest of a schedule's cron
\* expression, whatever the number of registered services, zero included.
C19_RecordedWithoutRunners ==
    Quiet =>
        \A s \in 1..Len(scheduler.config.schedules) :
            LET cron_schedule == CronOf(scheduler.config.schedules[s])
            IN  cron_schedule # None =>
                  Occurrences(Unwrap(cron_schedule)) - 1 <= InsertCalls(s)

\* ------------------------------------------------------------------ C20
\* what a run of a closure whose insert_message call fails does
C20_Step ==
    Len(runs') = Len(runs) + 1 =>
        LET run == runs'[Len(runs')]
            message == scheduler.config.schedules[run.schedule].message
        IN  (run.fired /\ ~run.inserted) =>
              /\ messages' = messages
              /\ run.dispatch # "none"
              /\ run.dispatch = "Ok" =>
                    mailboxes'[run.service] =
                        Append(mailboxes[run.service], message)
              /\ \E c \in DOMAIN intervals :
                    /\ c[1] = run.schedule
                    /\ scheduler.services[c[2]] = run.service
                    /\ intervals'[c].at = local_now + scheduler.config.tick_ms

\* C20: a run of a closure whose insert_message call fails stores no row,
\* still delivers the schedule's message to the service in the same run,
\* and its timer stays armed for the next tick.
C20_DispatchWithoutRecord ==
    [][C20_Step]_vars

\* a closure fired with a failed insert and fired again at a later tick
\* with a stored row: the service has received both messages
C20_Witness ==
    \E i, j \in 1..Len(runs) :
        /\ i < j
        /\ runs[i].schedule = runs[j].schedule
        /\ runs[i].service = runs[j].service
        /\ runs[i].fired /\ ~runs[i].inserted
        /\ runs[j].fired /\ runs[j].inserted
        /\ runs[i].at < runs[j].at
        /\ Received(runs[i].service, runs[i].schedule) = 2
        /\ Count(messages, message_to_string(
                 scheduler.config.schedules[runs[i].schedule].message)) = 1

\* ------------------------------------------------------------------ C21
\* what a run of a closure does with the result of do_send
C21_Step ==
    Len(runs') = Len(runs) + 1 =>
        LET run == runs'[Len(runs')]
            message == scheduler.config.schedules[run.schedule].message
        IN  run.fired =>
              /\ run.dispatch = (IF run.service \in stopped
                                 THEN "Closed" ELSE "Ok")
              /\ mailboxes' =
                    IF run.dispatch = "Ok"
                    THEN [mailboxes EXCEPT ![run.service] = Append(@, message)]
                    ELSE mailboxes
              /\ DOMAIN intervals' = DOMAIN intervals
              /\ \A c \in DOMAIN intervals :
                    intervals'[c].at =
                        IF c[1] = run.schedule
                           /\ scheduler.services[c[2]] = run.service
                        THEN local_now + scheduler.config.tick_ms
                        ELSE intervals[c].at

\* C21: a run of a closure that fires sends the schedule's message to its
\* service whether or not an earlier message was rejected; when the
\* service's mailbox rejects the message nothing is delivered, the timers
\* of the other closures stay as they were, so the other services still
\* receive the firing, and the timer of the rejected closure is armed for
\* the next tick.
C21_RejectedSendNotFatal ==
    [][C21_Step]_vars

\* two services share a firing: the stopped one rejected its message, the
\* other received it, and at a later tick the stopped one was tried again
C21_Witness ==
    \E i, j, k \in 1..Len(runs) :
        /\ i < j /\ j < k
        /\ runs[i].schedule = runs[j].schedule
        /\ runs[i].at = runs[j].at
        /\ runs[i].service # runs[j].service
        /\ runs[i].fired /\ runs[i].dispatch = "Closed"
        /\ runs[j].fired /\ runs[j].dispatch = "Ok"
        /\ Received(runs[j].service, runs[j].schedule) >= 1
        /\ runs[k].schedule = runs[i].schedule
        /\ runs[k].service = runs[i].service
        /\ runs[k].at > runs[i].at
        /\ runs[k].fired /\ runs[k].dispatch = "Closed"

\* ------------------------------------------------------------------ C22
\* the services stay as they were once the Scheduler has started, and the
\* mailbox of a service that is not among them stays empty
C22_Step ==
    /\ started_at # None => scheduler'.services = scheduler.services
    /\ \A service \in Recipients :
          (\A i \in 1..Len(scheduler'.services) :
                scheduler'.services[i] # service)
              => mailboxes'[service] = <<>>

TickDone ==
    checking = None /\ monitor_ticks > 0

\* the check_filesystem_usage calls of the latest tick for filesystem j
SamplesOf(j) ==
    {s \in 1..Len(samples) : samples[s].filesystem = j}

\* the connections whose Recipient is in the subscribers map
Subscribed ==
    {monitor.subscribers[id] : id \in DOMAIN monitor.subscribers}

\* the step is a check_filesystem_usage call that stored a row
Persisted ==
    /\ Len(samples') = Len(samples) + 1
    /\ samples'[Len(samples')].recorded

\* ------------------------------------------------------------------ C23
\* C23: when the closure of a tick of a SystemMonitor with one stream has
\* returned, insert_disk_usage has been called exactly once in the tick
\* for every configured filesystem whose mount can be probed.
C23_OneRecordPerHealthyMount ==
    (TickDone /\ Len(monitor.streams) = 1) =>
        \A j \in 1..Len(monitor.config.filesystems) :
            get_mount(monitor.config.filesystems[j]).ok =>
                Cardinality({s \in SamplesOf(j) : samples[s].mounted}) = 1

\* ------------------------------------------------------------------ C24
\* what a check_filesystem_usage call that stored a row pushes
C24_Step ==
    Persisted =>
        LET sample == samples'[Len(samples')]
            row == disk_usage'[Len(disk_usage')]
            filesystem_config == monitor.config.filesystems[sample.filesystem]
            threshold == F64(filesystem_config.available_space_alert_above)
        IN  IF f64_gt(row.percent_disk_used, threshold)
            THEN /\ Len(pushed') = Len(pushed) + 1
                 /\ pushed'[Len(pushed')].event =
                       HighDiskUsage(row.mount, row.percent_disk_used,
                                     threshold)
            ELSE pushed' = pushed /\ outbox' = outbox

\* C24: a check_filesystem_usage call that stores a row pushes a
\* HighDiskUsage event with the mount, the stored percentage and the
\* threshold when the percentage is strictly above the filesystem's
\* available_space_alert_above, and pushes nothing otherwise.
C24_AlertIffAboveThreshold ==
    [][C24_Step]_vars

\* ------------------------------------------------------------------ C25
\* what the connections receive in a check_filesystem_usage call that
\* stored a row
C25_Step ==
    Persisted =>
        LET row == disk_usage'[Len(disk_usage')]
        IN  \A c \in Connections :
                updates'[c] =
                    IF c \in Subscribed /\ ws[c].state = "open"
                    THEN Append(updates[c], row)
                    ELSE updates[c]

\* C25: in a check_filesystem_usage call that stores a row, every open
\* connection whose Subscribe was handled and whose Unsubscribe was not
\* receives the row once, after the rows it received before, and the other
\* connections receive nothing.
C25_OneRecordPerSample ==
    [][C25_Step]_vars

\* ------------------------------------------------------------------ C26
\* C26: when the closure of a tick of a SystemMonitor with one stream has
\* returned and nothing but the probes of mounts failed in it, every
\* configured filesystem has been sampled in the tick, those listed after
\* a failing mount included.
C26_FailingMountSkipsOnlyItself ==
    (/\ TickDone
     /\ Len(monitor.streams) = 1
     /\ \A s \in 1..Len(samples) :
           samples[s].result = "Err" => ~samples[s].mounted) =>
        \A j \in 1..Len(monitor.config.filesystems) : SamplesOf(j) # {}

\* ------------------------------------------------------------------ C27
\* what a check_filesystem_usage call that stored a row does when a
\* subscriber rejects the row
C27_Step ==
    (Persisted /\ \E c \in Subscribed : subscriber_do_send(c) # "Ok") =>
        LET sample == samples'[Len(samples')]
            row == disk_usage'[Len(disk_usage')]
            filesystem_config == monitor.config.filesystems[sample.filesystem]
            threshold == F64(filesystem_config.available_space_alert_above)
        IN  /\ \A c \in Subscribed :
                  subscriber_do_send(c) = "Ok" =>
                      updates'[c] = Append(updates[c], row)
            /\ f64_gt(row.percent_disk_used, threshold) =>
                  Len(pushed') = Len(pushed) + 1

\* C27: when a subscriber rejects the row of a check_filesystem_usage
\* call, every other subscriber still receives the row and the
\* HighDiskUsage event of the row is still pushed when the percentage is
\* above the threshold.
C27_DeliveryErrorNotFatal ==
    [][C27_Step]_vars

\* ------------------------------------------------------------------ C28
\* C28: when the closure of a tick of a SystemMonitor with one stream has
\* returned and nothing but pushes to a full OUTBOX failed in it, every
\* configured filesystem has been sampled in the tick.
C28_FullOutboxNotFatal ==
    (/\ TickDone
     /\ Len(monitor.streams) = 1
     /\ \A s \in 1..Len(samples) :
           samples[s].result = "Err" => samples[s].alert = "Full") =>
        \A j \in 1..Len(monitor.config.filesystems) : SamplesOf(j) # {}

\* ------------------------------------------------------------------ C29
\* what a step does to the subscribers map: a handled Subscribe adds one
\* entry under an id that was not a key, a handled Unsubscribe removes the
\* entry of its id if there is one, and no other step changes the map
C29_Step ==
    LET subscribers == monitor.subscribers
        starting == {c \in Connections :
                        ws[c].state = "new" /\ ws'[c].state = "open"}
    IN  IF starting # {}
        THEN \A c \in starting :
               LET id == Unwrap(ws'[c].subscriber_id)
               IN  /\ id \notin DOMAIN subscribers
                   /\ DOMAIN monitor'.subscribers =
                         DOMAIN subscribers \cup {id}
                   /\ monitor'.subscribers[id] = c
                   /\ \A x \in DOMAIN subscribers :
                         monitor'.subscribers[x] = subscribers[x]
                   /\ Cardinality(DOMAIN monitor'.subscribers) =
                         Cardinality(DOMAIN subscribers) + 1
        ELSE IF Len(monitor_inbox') < Len(monitor_inbox)
        THEN LET id == Head(monitor_inbox)
             IN  /\ DOMAIN monitor'.subscribers = DOMAIN subscribers \ {id}
                 /\ \A x \in DOMAIN monitor'.subscribers :
                       monitor'.subscribers[x] = subscribers[x]
                 /\ id \notin DOMAIN subscribers =>
                       monitor'.subscribers = subscribers
        ELSE monitor'.subscribers = subscribers

C30_Step ==
    \A c \in Connections :
        /\ (ws[c].state = "new" /\ ws'[c].state = "open") =>
              /\ ws'[c].subscriber_id # None
              /\ Unwrap(ws'[c].subscriber_id) \in DOMAIN monitor'.subscribers
              /\ monitor'.subscribers[Unwrap(ws'[c].subscriber_id)] = c
        /\ (ws[c].state = "open" /\ ws'[c].state = "stopped") =>
              /\ monitor_inbox' =
                    Append(monitor_inbox, Unwrap(ws[c].subscriber_id))
              /\ ws'[c].stopped_by \in {"close", "timeout"}
              /\ ws'[c].stopped_by = "timeout" =>
                    now - ws[c].last_heartbeat > CLIENT_TIMEOUT
        /\ (ws[c].state = "open" /\ ws[c].heartbeat_at = now
                /\ now' = now /\ ws'[c] # ws[c]
                /\ ws'[c].last_heartbeat = ws[c].last_heartbeat
                /\ now - ws[c].last_heartbeat > CLIENT_TIMEOUT) =>
              ws'[c].state = "stopped"
        /\ ws[c].state = "stopped" =>
              ws'[c] = ws[c] /\ updates'[c] = updates[c]
        /\ ws[c].state = "new" => updates'[c] = updates[c]

\* C30: a connection that starts holds the id under which the
\* SystemMonitor registered it; a connection stops only on a Close frame
\* or in a heartbeat that finds more than CLIENT_TIMEOUT since its last
\* ping or pong, and then Unsubscribe with its id is sent; such a heartbeat
\* always stops it; a stopped connection receives no record.
C30_WsLifecycle ==
    [][C30_Step]_vars

\* a silent connection that received a row was stopped by its heartbeat
\* and missed a later row, while a connection that sent a ping is still
\* open after the heartbeat that stopped the other
C30_Witness ==
    \E c, d \in Connections :
        /\ ws[c].stopped_by = "timeout"
        /\ Len(updates[c]) >= 1
        /\ Len(disk_usage) > Len(updates[c])
        /\ ws[d].state = "open"
        /\ ws[d].last_heartbeat > 0
        /\ ws[d].heartbeat_at > now
        /\ Len(updates[d]) > Len(updates[c])

\* ------------------------------------------------------------------ C36
\* the percentage of a row a check_filesystem_usage call stored
C36_Step ==
    Persisted =>
        LET row == disk_usage'[Len(disk_usage')]
            filesystem == system[row.mount].value
        IN  row.percent_disk_used =
                IF filesystem.total = 0
                THEN F64(0)
                ELSE F64(((filesystem.total - filesystem.avail) * 100)
                             \div filesystem.total)

\* C36: the percentage of a stored row is (total - avail) * 100 / total
\* of its filesystem when total > 0, and 0 when total = 0.
C36_PercentUsed ==
    [][C36_Step]_vars

\* ------------------------------------------------------------------ C37
\* what a check_filesystem_usage call does around record_disk_usage
C37_Step ==
    Len(samples') = Len(samples) + 1 =>
        LET sample == samples'[Len(samples')]
        IN  /\ (sample.mounted /\ ~sample.recorded) =>
                  /\ disk_usage' = disk_usage
                  /\ updates' = updates
                  /\ pushed' = pushed
                  /\ outbox' = outbox
                  /\ sample.tried = <<>>
                  /\ sample.alert = "none"
            /\ sample.recorded =>
                  \A c \in Connections :
                      updates'[c] # updates[c] =>
                          updates'[c] =
                              Append(updates[c],
                                     disk_usage'[Len(disk_usage')])
            /\ sample.alert # "none" =>
                  /\ sample.recorded
                  /\ Len(sample.tried) = Cardinality(DOMAIN monitor.subscribers)

\* C37: a check_filesystem_usage call whose record_disk_usage fails stores
\* no row, sends no record to a subscriber and pushes no event; a record a
\* subscriber receives is the row just stored, and an event is pushed only
\* after the row was stored and do_send was called for every subscriber.
C37_PersistThenFanOutThenAlert ==
    [][C37_Step]_vars

\* record_disk_usage failed for a filesystem above its threshold while a
\* connection was subscribed and open: the connection has received nothing
\* and nothing was pushed
C37_Witness ==
    \E s \in 1..Len(samples), c \in Subscribed :
        /\ samples[s].mounted /\ ~samples[s].recorded
        /\ f64_gt(Unwrap(samples[s].percent),
                  F64(monitor.config.filesystems[samples[s].filesystem]
                          .available_space_alert_above))
        /\ ws[c].state = "open"
        /\ updates[c] = <<>>
        /\ pushed = <<>>
        /\ disk_usage = <<>>

\* ------------------------------------------------------------------ C39
\* C39: when the closure of a tick has returned, every configured
\* filesystem has been sampled in the tick once per entry of the streams:
\* never without a stream, k times with k entries.
C39_SampledOncePerStream ==
    TickDone =>
        \A j \in 1..Len(monitor.config.filesystems) :
            Cardinality(SamplesOf(j)) = Len(monitor.streams)

\* --------------------------------------- reading the Twitter actor's history
\* every item the Twitter actor took from its stream, in arrival order
Arrived ==
    stream.earlier \o stream.taken

\* the tweets of the stream whose text has a term of the n-th group, as
\* the NewTweets of the group, in arrival order
MatchingTweets(n) ==
    LET term == twitter.config.terms[n]
        matching == SelectSeq(Arrived,
                        LAMBDA item : /\ item.kind = "Tweet"
                                      /\ \E i \in 1..Len(term.terms) :
                                            contains(item.text, term.terms[i]))
    IN  [i \in 1..Len(matching) |->
            from_egg_mode_tweet(term.group_name, matching[i])]

\* the last k elements of a sequence
LastOf(seq, k) ==
    SubSeq(seq, Len(seq) - k + 1, Len(seq))

\* the buffer of a group, empty for a group without an entry
BufferOf(group_name) ==
    IF group_name \in DOMAIN twitter.tweet_buffer
    THEN twitter.tweet_buffer[group_name]
    ELSE <<>>

\* ------------------------------------------------------------------ C31
\* C31: the buffer of every group holds at most MAX_TWEETS_TO_SEND tweets:
\* the latest tweets of the stream whose text contains a term of the
\* group, in arrival order, the oldest having left a full buffer first.
C31_GroupBuffers ==
    \A n \in 1..Len(twitter.config.terms) :
        LET matching == MatchingTweets(n)
            buffer == BufferOf(twitter.config.terms[n].group_name)
        IN  /\ Len(buffer) <= MAX_TWEETS_TO_SEND
            /\ buffer = LastOf(matching,
                               IF Len(matching) < MAX_TWEETS_TO_SEND
                               THEN Len(matching) ELSE MAX_TWEETS_TO_SEND)

\* a tweet arrived for a full buffer: it holds MAX_TWEETS_TO_SEND tweets
\* from the second on, while a tweet without a term of the group arrived too
C31_Witness ==
    /\ Len(BufferOf("a")) = MAX_TWEETS_TO_SEND
    /\ BufferOf("a")[1].twitter_tweet_id = 2
    /\ BufferOf("a")[MAX_TWEETS_TO_SEND].twitter_tweet_id
          = MAX_TWEETS_TO_SEND + 1
    /\ \E i \in 1..Len(stream.taken) :
          /\ stream.taken[i].kind = "Tweet"
          /\ ~contains(stream.taken[i].text, Str(<<"g", "o">>))

\* ------------------------------------------------------------------ C40
\* what the closure does for an item of the stream
C40_Step ==
    Len(stream'.taken) = Len(stream.taken) + 1 =>
        LET item == stream'.taken[Len(stream'.taken)]
        IN  /\ item.kind # "Tweet" =>
                  twitter' = twitter /\ tweets' = tweets
            /\ item.kind = "Tweet" =>
                  \A n \in 1..Len(twitter.config.terms) :
                      LET term == twitter.config.terms[n]
                          new_tweet ==
                              from_egg_mode_tweet(term.group_name, item)
                      IN  tweet_contains_term(term, item) =>
                            /\ term.group_name
                                  \in DOMAIN twitter'.tweet_buffer
                            /\ LET buffer ==
                                      twitter'.tweet_buffer[term.group_name]
                               IN  buffer[Len(buffer)] = new_tweet

\* C40: a tweet with a term of a group is the newest tweet of the group's
\* buffer once the closure has run, whether or not its row was stored; an
\* item that is an error or no tweet changes no buffer and stores no row.
C40_PersistFailureStillBuffered ==
    [][C40_Step]_vars

\* a tweet whose row was not stored is in its group's buffer, and a tweet
\* that arrived after an error item is in the buffer as well
C40_Witness ==
    \E i, j, k \in 1..Len(stream.taken) :
        /\ i < j /\ j < k
        /\ stream.taken[i].kind = "Tweet"
        /\ \E t \in 1..Len(BufferOf("a")) :
              BufferOf("a")[t].twitter_tweet_id = stream.taken[i].id
        /\ \A r \in 1..Len(tweets) :
              tweets[r].twitter_tweet_id # stream.taken[i].id
        /\ stream.taken[j].kind = "Error"
        /\ stream.taken[k].kind = "Tweet"
        /\ \E t \in 1..Len(BufferOf("a")) :
              BufferOf("a")[t].twitter_tweet_id = stream.taken[k].id

\* ------------------------------------------------------------------ C32
\* what a FetchNews invocation pushes and returns
C32_Step ==
    Len(fetches') = Len(fetches) + 1 =>
        LET fetch == fetches'[Len(fetches')]
        IN  /\ fetch.response = "Err" =>
                  /\ pushed' = pushed
                  /\ outbox' = outbox
                  /\ fetch.result = Err("NewsError")
            /\ fetch.response # "Err" =>
                  /\ Len(pushed') = Len(pushed) + 1
                  /\ pushed'[Len(pushed')].service = "News"
                  /\ pushed'[Len(pushed')].event = Newscast

\* C32: a FetchNews invocation whose fetch fails pushes nothing and returns
\* the error; an invocation whose fetch succeeds, also after a failed one,
\* makes exactly one push, of a Newscast event.
C32_FetchErrorAbortsInvocation ==
    [][C32_Step]_vars

\* a failed fetch pushed nothing and the next invocation pushed a Newscast
C32_FailedThenPushed ==
    /\ Len(fetches) = 2
    /\ fetches[1].response = "Err"
    /\ fetches[2].response = "Ok"
    /\ Produced("News") = 1

\* ------------------------------------------------------------------ C33
\* the event types with a rule in the configuration
ConfiguredEvents ==
    {config.broadcast.alerts[i].event :
        i \in 1..Len(config.broadcast.alerts)}

\* what main's statement for the Broadcaster does
C33_Step ==
    (main.pc = "Broadcast" /\ main'.pc # "Broadcast") =>
        LET broadcast == config.broadcast
        IN  /\ (broadcast.alerts # <<>> /\ broadcast.email = None) =>
                  /\ main'.pc = "exited"
                  /\ main'.exit = Some(Err("UnconfiguredEmail"))
                  /\ main'.started = <<>>
                  /\ alerts' = alerts
            /\ broadcast.alerts = <<>> =>
                  /\ main'.pc = "Twitter"
                  /\ main'.exit = None
                  /\ main'.started = <<>>
                  /\ alerts' = alerts
            /\ (broadcast.alerts # <<>> /\ broadcast.email # None) =>
                  /\ main'.pc = "Twitter"
                  /\ main'.started = <<"Broadcast">>
                  /\ DOMAIN alerts' = ConfiguredEvents
                  /\ \A t \in ConfiguredEvents :
                        /\ alerts'[t].event = t
                        /\ \E i \in 1..Len(broadcast.alerts) :
                              alerts'[t] = broadcast.alerts[i]

\* C33: with alert rules and no email section main exits with
\* UnconfiguredEmail before an actor is started; with no alert rule no
\* Broadcast actor is started and main goes on; with alert rules and an
\* email section the Broadcast actor starts with exactly one rule for each
\* configured event type, a rule of the configuration for that type.
C33_BroadcasterConstruction ==
    [][C33_Step]_vars

\* main has exited with UnconfiguredEmail and no actor started
C33_Witness ==
    /\ main.pc = "exited"
    /\ main.exit = Some(Err("UnconfiguredEmail"))
    /\ main.started = <<>>

\* ------------------------------------------------------------------ C34
\* C34: main exits only with the error of reading the configuration, of
\* reaching the storage or of a configuration with alerts and no email
\* section; a configuration without system_monitor or news does not end it.
C34_StartupFailsOnlyOnConfigOrStorage ==
    main.pc = "exited" =>
        main.exit \in {Some(Err("ConfigParseError")),
                       Some(Err("DbConnectError")),
                       Some(Err("UnconfiguredEmail"))}

\* ------------------------------------------------------------------ C35
\* C35: no step of the Broadcast actor changes its rule map, whether the
\* popped event is sent, suppressed or has no rule: the map stays the one
\* built from the configuration.
C35_RuleMapImmutable ==
    [][alerts' = alerts]_vars

\* an event was sent, one was suppressed inside the interval and one had
\* no rule
C35_Witness ==
    \E i, j, l \in 1..Len(evals) :
        /\ Completed(i) /\ EmailsOf(i) # {}
        /\ evals[j].rule # None /\ ~evals[j].send_now
        /\ evals[l].rule = None

\* ------------------------------------------------------------------ C38
\* the popped events of a key whose delivery loop ran to its end
SendsOf(key) ==
    {j \in 1..Len(evals) : evals[j].key = key /\ Completed(j)}

\* the latest of them
LastSendOf(key) ==
    CHOOSE j \in SendsOf(key) : \A k \in SendsOf(key) : k <= j

\* what popping an event does with LAST_ALERTED
C38_Step ==
    Len(evals') = Len(evals) + 1 =>
        LET e == evals'[Len(evals')]
        IN  /\ ~e.send_now => last_alerted' = last_alerted
            /\ e.last = IF SendsOf(e.key) = {}
                        THEN None
                        ELSE evals[LastSendOf(e.key)].recorded
            /\ (/\ e.rule # None
                /\ Unwrap(e.rule).alert_interval # None
                /\ e.last # None
                /\ e.at - Unwrap(e.last)
                      > Unwrap(Unwrap(e.rule).alert_interval))
               => e.send_now

\* C38: an event that is not sent leaves LAST_ALERTED as it is, so the
\* instant an event of a key is compared with is the one written by the
\* last send of the key, not the instant of a suppressed event; an event
\* popped more than alert_interval after it is sent.
C38_WindowFromLastSend ==
    [][C38_Step]_vars

\* a stream of one key: an event sent, a later one suppressed inside the
\* interval, and one sent again, more than the interval after the first
\* send and compared with the instant of that send
C38_Witness ==
    \E i, j, l \in 1..Len(evals) :
        /\ i < j /\ j < l
        /\ evals[i].key = evals[j].key /\ evals[j].key = evals[l].key
        /\ HasInterval(l)
        /\ Completed(i) /\ EmailsOf(i) # {}
        /\ ~evals[j].send_now
        /\ evals[j].at > Unwrap(evals[i].recorded)
        /\ evals[l].send_now /\ EmailsOf(l) # {}
        /\ evals[l].last = evals[i].recorded

====
